---- MODULE Spec2Model ----
(***************************************************************************)
(* go-cmd-evt: the command router (App), the event emitter (EventEmitter)  *)
(* and the in-memory dispatcher, as one synchronous call stack.            *)
(*                                                                         *)
(* Go runs Handle, the command handler, Emit, Write, Dispatch and the      *)
(* subscribers depth-first on one goroutine.  The model keeps that call    *)
(* stack explicitly: every frame is one active Go call, the top frame is   *)
(* the one that runs, and an action is one step of the top frame.          *)
(* Command handlers, subscribers and the log writer are supplied by the    *)
(* caller of the library; what they do is drawn from small sets.           *)
(***************************************************************************)
EXTENDS Integers, Sequences, FiniteSets, TLC

VARIABLES
    built,      \* NewApp has returned the App
    modules,    \* the argument list NewApp was called with (history)
    handlers,   \* App.handlers: map[reflect.Type]HandlerFunc
    subs,       \* InMemoryDispatcher.handlers: map[reflect.Type][]handler
    stack,      \* the goroutine's call stack, innermost call last
    ret,        \* the (result, error) pair of the call that returned last
    status,     \* "idle" | "running" | "panicked"
    nCalls,     \* Handle calls started by the current top-level call
    nEvents,    \* events emitted by the current top-level call (the last id)
    nSubscribes,\* Subscribe calls so far
    trace,      \* history of the current top-level call, in program order
    heap,       \* the events the current top-level call allocated, by id
    instances,  \* the modules the constructors have returned
    clock,      \* the wall clock: what time.Now() returns
    made,       \* the BaseEvents NewBaseEvent has returned (history)
    threads,    \* what each goroutine that shares the emitter is doing
    emitter     \* the EventEmitter: its two collaborator references

vars == << built, modules, handlers, subs, stack, ret, status,
           nCalls, nEvents, nSubscribes, trace, heap, instances, clock, made,
           threads, emitter >>

----------------------------------------------------------------------------
(* Bounds of the exploration.                                              *)

MaxModules == 2
MaxCalls == 2
MaxEvents == 2
MaxSubscribes == 2
MaxInstances == 2
MaxMade == 2
MaxTicks == 3
TicksPerSecond == 2

----------------------------------------------------------------------------
(* Types: reflect.Type of a value is a key; T and *T are different keys.   *)

CmdTypes == {"*CreateUserCommand", "*DeleteUserCommand", "CreateUserCommand"}

EvtTypes == {"*OrderCreatedEvent", "*PaymentProcessedEvent"}

\* an event struct can be handed over by pointer or by value (the methods of
\* BaseEvent have value receivers): the pointer type and the type it points to
EvtElem == [t \in {"*OrderCreatedEvent"} |-> "OrderCreatedEvent"]

\* the event types of the example, in both forms
EvtForms == EvtTypes \cup {EvtElem[p] : p \in DOMAIN EvtElem}

\* the pointer types and the type each points to
Elem == [t \in {"*CreateUserCommand"} |-> "CreateUserCommand"]

\* variant of TypeOf: a pointer is looked through, as reflect.Indirect does
TypeOfIndirect(v) == IF v.type \in DOMAIN Elem THEN Elem[v.type] ELSE v.type

\* reflect.TypeOf(cmd): the dynamic type of the command value
TypeOf(v) == v.type

\* (any, error) values.  A value says what it is and who produced it.
Nil == [kind |-> "nil", by |-> ""]
ResultOf(h) == [kind |-> "result", by |-> h]
ErrorOf(h) == [kind |-> "error", by |-> h]

\* reflect.TypeOf(nil) is the nil Type; %T prints it as <nil>
NilType == "<nil>"

\* variant of NoHandlerError: the message is built from
\* reflect.TypeOf(cmd).Name(), a method call on the nil Type for a nil cmd
NoHandlerErrorByName(cmd) ==
    IF TypeOf(cmd) = NilType
    THEN [kind |-> "panic", by |-> "nil pointer dereference"]
    ELSE [kind |-> "no handler for command type", by |-> TypeOf(cmd)]

\* variant of NoHandlerError: the message names the static type of cmd
NoHandlerErrorStatic(cmd) ==
    [kind |-> "no handler for command type", by |-> "Command"]

\* fmt.Errorf("no handler for command type: %T", cmd)
NoHandlerError(cmd) == [kind |-> "no handler for command type", by |-> TypeOf(cmd)]

\* Emit and Dispatch return nothing
Void == [res |-> Nil, err |-> Nil]

----------------------------------------------------------------------------
(* Modules: each exposes a map from command type to handler.               *)

UserModule == [t \in {"*CreateUserCommand", "*DeleteUserCommand"} |->
                 IF t = "*CreateUserCommand" THEN "createUser" ELSE "deleteUser"]

OverrideModule == [t \in {"*CreateUserCommand"} |-> "overridden"]

ValueModule == [t \in {"CreateUserCommand"} |-> "createUserValue"]

EmptyModule == [t \in {} |-> "none"]

Modules == {UserModule, OverrideModule, ValueModule, EmptyModule}

\* the ways Go may iterate over a map: every order of its keys
RECURSIVE Orders(_)
Orders(S) ==
    IF S = {} THEN {<< >>}
    ELSE UNION {{<<x>> \o o : o \in Orders(S \ {x})} : x \in S}

\* variant of MapSet: an entry already in the map is kept
MapSetFirstWins(m, k, v) ==
    IF k \in DOMAIN m THEN m
    ELSE [x \in DOMAIN m \cup {k} |-> IF x = k THEN v ELSE m[x]]

\* app.handlers[typ] = h
MapSet(m, k, v) ==
    [x \in DOMAIN m \cup {k} |-> IF x = k THEN v ELSE m[x]]

\* variant of RegisterModule: the loop stops after the first entry it visits
RegisterModuleFirstEntry(hm, m, order) ==
    IF order = << >> THEN hm ELSE MapSet(hm, Head(order), m[Head(order)])

\* variant of RegisterModule: a module that has handlers replaces the map
RegisterModuleReplacing(hm, m, order) == IF order = << >> THEN hm ELSE m

\* for typ, h := range m.Handlers() { app.handlers[typ] = h }
RECURSIVE RegisterModule(_, _, _)
RegisterModule(hm, m, order) ==
    IF order = << >> THEN hm
    ELSE RegisterModule(MapSet(hm, Head(order), m[Head(order)]), m, Tail(order))

\* for _, m := range modules { ... }; orders[i] is the iteration order of
\* the i-th module's map
RECURSIVE RegisterAll(_, _, _)
RegisterAll(hm, mods, orders) ==
    IF mods = << >> THEN hm
    ELSE RegisterAll(RegisterModule(hm, Head(mods), Head(orders)),
                     Tail(mods), Tail(orders))

EmptyMap == [t \in {} |-> "none"]

ModuleLists == UNION {[1..n -> Modules] : n \in 0..MaxModules}

OrderLists(mods) ==
    {o \in [1..Len(mods) -> UNION {Orders(DOMAIN m) : m \in Modules}] :
        \A i \in 1..Len(mods) : o[i] \in Orders(DOMAIN mods[i])}

----------------------------------------------------------------------------
(* Frames of the call stack and entries of the history.                    *)

\* a command value: its dynamic type and what its fields hold
Command(t, data) == [type |-> t, data |-> data]

NoCmd == Command("", "")
NoEvent == [id |-> 0, type |-> ""]

\* the exported fields of the BaseEvent an event embeds
Fields(id, name, aggregate, version) ==
    [ID |-> id, Type |-> name, Aggregate |-> aggregate, Version |-> version]

NoFields == Fields(0, "", "", 0)

\* no event allocated
NoEvents == [e \in {} |-> NoFields]

\* the event type name each event struct is built with
EventName == [t \in EvtForms |->
                IF t = "*PaymentProcessedEvent" THEN "PaymentProcessed" ELSE "OrderCreated"]

\* event := NewOrderCreatedEvent(orderID, ...): the BaseEvent of the event
\* allocated with identity id
NewEvent(id, t) == Fields(id, EventName[t], "order-1", 1)

\* the heap once the event of identity id and type t is allocated
Alloc(hp, id, t) ==
    [e \in DOMAIN hp \cup {id} |-> IF e = id THEN NewEvent(id, t) ELSE hp[e]]

\* One active call.  ctx, cmd and ev are its arguments (ev is a pointer: the
\* identity of the event and its dynamic type); seen is what a subscriber
\* read from the event when it was called.
Frame(fn, pc, call, ctx, cmd, h, ev, seen, hs, i) ==
    [fn |-> fn, pc |-> pc, call |-> call, ctx |-> ctx, cmd |-> cmd, h |-> h,
     ev |-> ev, seen |-> seen, hs |-> hs, i |-> i]

Entry(op, call, ev, typ, k, h, val) ==
    [op |-> op, call |-> call, ev |-> ev, typ |-> typ, k |-> k, h |-> h,
     val |-> val]

Top == stack[Len(stack)]
Caller == stack[Len(stack) - 1]
Pop == SubSeq(stack, 1, Len(stack) - 1)
Push(f) == Append(stack, f)
\* variant of Call: the callee g is queued under its caller f, which goes on
\* running and returns before g runs
CallQueued(f, g) == Append(Append(Pop, g), f)

\* replace the top frame by f and push g on it
Call(f, g) == Append(Append(Pop, f), g)
\* pop the top frame and replace the frame under it by f
Return(f) == Append(SubSeq(stack, 1, Len(stack) - 2), f)

Running(fn, pc) == status = "running" /\ stack # << >> /\ Top.fn = fn /\ Top.pc = pc

\* the status once the top frame has returned
AfterReturn == IF Len(stack) = 1 THEN "idle" ELSE "running"

----------------------------------------------------------------------------
(* What the caller-supplied code may do.                                   *)

\* the (result, error) pairs a command handler h may return
HandlerReturns(h) ==
    { [res |-> ResultOf(h), err |-> Nil], [res |-> Nil, err |-> ErrorOf(h)] }

\* the (result, error) pairs a subscriber s may return of its own
SubscriberReturns(s) ==
    { [res |-> Nil, err |-> Nil], [res |-> Nil, err |-> ErrorOf(s)] }

Subscribers == {"s1", "s2"}

\* the errors EventLogWriter.Write may return
WriteErrors == {Nil, ErrorOf("LogWriter")}

\* the contexts main holds
Contexts == {"ctxA", "ctxB"}

\* the (ctx, command fields) pairs main calls Handle with
HandleInputs == {[ctx |-> "ctxA", data |-> "a"], [ctx |-> "ctxB", data |-> "b"]}

\* the context a command handler that received ctx passes to Emit: its own
\* (matmaster createStudent) or a new one (example_test createOrder)
HandlerEmitContexts(ctx) == {ctx, "context.TODO()"}

\* what the holder of the pointer ev reads from the event
Read(hp, ev) == hp[ev.id]

----------------------------------------------------------------------------
(* The emitter and the goroutines that share it.                           *)

\* func NewEventEmitter(logWriter EventLogWriter, dispatcher Dispatcher)
NewEventEmitter(logWriter, dispatcher) ==
    [LogWriter |-> logWriter, Dispatcher |-> dispatcher]

Goroutines == {1, 2}

\* What a goroutine does: the call it is in (op), where it is in that call
\* (pc, and i for the statements of Emit), the event or the subscription the
\* call is about, the handler list it read from the map, and whether a map
\* access of its own overlapped a conflicting one of another goroutine.
Doing(op, pc, i, ev, typ, h, hs, raced) ==
    [op |-> op, pc |-> pc, i |-> i, ev |-> ev, typ |-> typ, h |-> h, hs |-> hs,
     raced |-> raced]

Idle == Doing("", "idle", 0, 0, "", "", << >>, FALSE)

----------------------------------------------------------------------------
(* The wall clock.                                                         *)

\* a time.Time: calendar date, time of day, and the fraction of the second
\* in units of 1/TicksPerSecond
Time(Y, M, D, h, m, s, f) ==
    [year |-> Y, month |-> M, day |-> D, hour |-> h, minute |-> m, second |-> s,
     frac |-> f]

\* time.Time{}: January 1, year 1, 00:00:00 UTC
ZeroTime == Time(1, 1, 1, 0, 0, 0, 0)

IsZero(t) == t = ZeroTime

\* the wall clock when the program starts
StartOfClock == Time(2026, 11, 3, 10, 59, 59, 0)

----------------------------------------------------------------------------
\* the router before NewApp is called
InitRouter ==
    /\ built = FALSE
    /\ modules = << >>
    /\ handlers = EmptyMap
    /\ subs = [t \in {} |-> << >>]
    /\ stack = << >>
    /\ ret = Void
    /\ status = "idle"
    /\ nCalls = 0
    /\ nEvents = 0
    /\ nSubscribes = 0
    /\ trace = << >>
    /\ heap = NoEvents
    /\ instances = << >>
    /\ clock = StartOfClock
    /\ made = << >>
    /\ threads = [g \in Goroutines |-> Idle]
    /\ emitter = NewEventEmitter("logger", "dispatcher")

\* the modules main builds the application from
AppModules == << UserModule, OverrideModule >>

\* the program once main has built the emitter, the dispatcher and the App
Init ==
    /\ built = TRUE
    /\ modules = AppModules
    /\ \E orders \in OrderLists(AppModules) :
         handlers = RegisterAll(EmptyMap, AppModules, orders)
    /\ subs = [t \in {} |-> << >>]
    /\ stack = << >>
    /\ ret = Void
    /\ status = "idle"
    /\ nCalls = 0
    /\ nEvents = 0
    /\ nSubscribes = 0
    /\ trace = << >>
    /\ heap = NoEvents
    /\ instances = << >>
    /\ clock = StartOfClock
    /\ made = << >>
    /\ threads = [g \in Goroutines |-> Idle]
    /\ emitter = NewEventEmitter("logger", "dispatcher")

\* func NewApp(modules ...Module) *App
NewApp ==
    /\ ~built
    /\ \E mods \in ModuleLists : \E orders \in OrderLists(mods) :
         /\ handlers' = RegisterAll(EmptyMap, mods, orders)
         /\ modules' = mods
    /\ built' = TRUE
    /\ UNCHANGED << subs, stack, ret, status, nCalls, nEvents, nSubscribes, trace >>
    /\ UNCHANGED << heap, instances, clock, made >>
    /\ UNCHANGED << threads, emitter >>

\* variant of AppendHandler: a handler already in the list is not added again
AppendHandlerOnce(m, t, s) ==
    [x \in DOMAIN m \cup {t} |->
        IF x # t THEN m[x]
        ELSE IF t \notin DOMAIN m THEN << s >>
        ELSE IF \E k \in 1..Len(m[t]) : m[t][k] = s THEN m[t]
        ELSE Append(m[t], s)]

\* d.handlers[eventType] = append(d.handlers[eventType], handler)
AppendHandler(m, t, s) ==
    [x \in DOMAIN m \cup {t} |->
        IF x = t THEN Append(IF t \in DOMAIN m THEN m[t] ELSE << >>, s) ELSE m[x]]

\* func (d *InMemoryDispatcher) Subscribe(eventType, handler), called by main
\* with an event type of T
SubscribeUnder(T) ==
    /\ status = "idle"
    /\ nSubscribes < MaxSubscribes
    /\ \E t \in T, s \in Subscribers : subs' = AppendHandler(subs, t, s)
    /\ nSubscribes' = nSubscribes + 1
    /\ nCalls' = 0 /\ nEvents' = 0 /\ ret' = Void /\ trace' = << >>
    /\ UNCHANGED << built, modules, handlers, stack, status >>
    /\ heap' = NoEvents
    /\ UNCHANGED << instances, clock, made >>
    /\ UNCHANGED << threads, emitter >>

Subscribe == SubscribeUnder(EvtTypes)

\* Subscribe with either form of an event type
SubscribeForm == SubscribeUnder(EvtForms)

\* main calls app.Handle(ctx, cmd)
MainHandle ==
    /\ status = "idle"
    /\ built
    /\ \E t \in CmdTypes, in \in HandleInputs :
         /\ stack' = << Frame("Handle", "lookup", 1, in.ctx, Command(t, in.data),
                              "", NoEvent, NoFields, << >>, 0) >>
         /\ trace' = << Entry("Handle.call", 1, 0, t, 0, "", Void) >>
    /\ nCalls' = 1 /\ nEvents' = 0 /\ ret' = Void
    /\ status' = "running"
    /\ UNCHANGED << built, modules, handlers, subs, nSubscribes >>
    /\ heap' = NoEvents
    /\ UNCHANGED << instances, clock, made >>
    /\ UNCHANGED << threads, emitter >>

\* variant of EmitBody: the dispatch comes first
EmitBodyDispatchFirst == << "dispatch", "write" >>

\* variant of EmitBody: the event is not written to the log
EmitBodyWithoutWrite == << "dispatch" >>

\* the statements of Emit, in program order
EmitBody == << "write", "dispatch" >>

\* the frame of a call e.Emit(ctx, event) made by call `call`
EmitFrame(call, ctx, ev) ==
    Frame("Emit", "run", call, ctx, NoCmd, "", ev, NoFields, << >>, 1)

\* main calls eventEmitter.Emit(ctx, event) with an event whose type is of T
EmitOf(T) ==
    /\ status = "idle"
    /\ \E t \in T, ctx \in Contexts :
         /\ stack' = << EmitFrame(0, ctx, [id |-> 1, type |-> t]) >>
         /\ trace' = << Entry("Emit.call", 0, 1, t, 0, "", Void) >>
         /\ heap' = Alloc(NoEvents, 1, t)
    /\ nCalls' = 0 /\ nEvents' = 1 /\ ret' = Void
    /\ status' = "running"
    /\ UNCHANGED << built, modules, handlers, subs, nSubscribes >>
    /\ UNCHANGED << instances, clock, made >>
    /\ UNCHANGED << threads, emitter >>

MainEmit == EmitOf(EvtTypes)

\* Emit of an event in either form
MainEmitForm == EmitOf(EvtForms)

\* variant of Lookup: a missing type falls back to some registered handler
LookupWithDefault(hm, cmd) ==
    IF TypeOf(cmd) \in DOMAIN hm THEN [ok |-> TRUE, h |-> hm[TypeOf(cmd)]]
    ELSE IF DOMAIN hm = {} THEN [ok |-> FALSE, h |-> ""]
    ELSE [ok |-> TRUE, h |-> hm[CHOOSE t \in DOMAIN hm : TRUE]]

\* handler, ok := a.handlers[reflect.TypeOf(cmd)]
Lookup(hm, cmd) ==
    IF TypeOf(cmd) \in DOMAIN hm THEN [ok |-> TRUE, h |-> hm[TypeOf(cmd)]]
    ELSE [ok |-> FALSE, h |-> ""]

\* variant of HandleResult: a handler's error is replaced by Handle's own
HandleResultWrapped(r) ==
    IF r.err = Nil THEN r ELSE [res |-> Nil, err |-> ErrorOf("Handle")]

\* variant of HandleResult: a failed log write surfaces as Handle's error
HandleResultSideChannel(r) ==
    IF \E i \in 1..Len(trace) : trace[i].op = "log.Printf" /\ r.err = Nil
    THEN [res |-> r.res, err |-> ErrorOf("LogWriter")]
    ELSE r

\* return handler(ctx, cmd): what Handle returns once the handler returned r
HandleResult(r) == r

\* variant of HandlerArgs: the handler gets a fresh context and a zero command
HandlerArgsFresh(ctx, cmd) ==
    [ctx |-> "context.Background()", cmd |-> Command(cmd.type, "")]

\* return handler(ctx, cmd): the arguments the handler is called with
HandlerArgs(ctx, cmd) == [ctx |-> ctx, cmd |-> cmd]

\* variant of AfterHandle: a handler is dropped from the map once resolved
AfterHandleForgetting(hm, cmd) ==
    [t \in DOMAIN hm \ {TypeOf(cmd)} |-> hm[t]]

\* the router's map after Handle: Handle only reads a.handlers
AfterHandle(hm, cmd) == hm

\* func (a *App) Handle: the lookup, then either the error return or the
\* call of the handler
Handle ==
    /\ Running("Handle", "lookup")
    /\ handlers' = AfterHandle(handlers, Top.cmd)
    /\ IF ~Lookup(handlers, Top.cmd).ok
       THEN LET r == [res |-> Nil, err |-> NoHandlerError(Top.cmd)] IN
            /\ stack' = Pop
            /\ ret' = r
            /\ status' = AfterReturn
            /\ trace' = Append(trace, Entry("Handle.ret", Top.call, 0,
                                            TypeOf(Top.cmd), 0, "", r))
       ELSE LET h == Lookup(handlers, Top.cmd).h IN
            /\ stack' = Call([Top EXCEPT !.pc = "ret", !.h = h],
                             Frame("handler", "body", Top.call,
                                   HandlerArgs(Top.ctx, Top.cmd).ctx,
                                   HandlerArgs(Top.ctx, Top.cmd).cmd, h,
                                   NoEvent, NoFields, << >>, 0))
            /\ trace' = Append(trace, Entry("handler.call", Top.call, 0,
                                            TypeOf(Top.cmd), 0, h, Void))
            /\ UNCHANGED << ret, status >>
    /\ UNCHANGED << built, modules, subs, nCalls, nEvents, nSubscribes >>
    /\ UNCHANGED << heap, instances, clock, made >>
    /\ UNCHANGED << threads, emitter >>

\* a command handler calls m.eventEmitter.Emit(ctx, event)
HandlerEmit ==
    /\ Running("handler", "body")
    /\ nEvents < MaxEvents
    /\ \E t \in EvtTypes, ctx \in HandlerEmitContexts(Top.ctx) :
         /\ stack' = Push(EmitFrame(Top.call, ctx, [id |-> nEvents + 1, type |-> t]))
         /\ heap' = Alloc(heap, nEvents + 1, t)
         /\ trace' = Append(trace, Entry("Emit.call", Top.call, nEvents + 1, t,
                                         0, Top.h, Void))
    /\ nEvents' = nEvents + 1
    /\ UNCHANGED << built, modules, handlers, subs, ret, status, nCalls, nSubscribes >>
    /\ UNCHANGED << instances, clock, made >>
    /\ UNCHANGED << threads, emitter >>

\* a command handler returns its (result, error)
HandlerReturn ==
    /\ Running("handler", "body")
    /\ \E r \in HandlerReturns(Top.h) :
         /\ ret' = r
         /\ trace' = Append(trace, Entry("handler.ret", Top.call, 0,
                                         TypeOf(Top.cmd), 0, Top.h, r))
    /\ stack' = Pop
    /\ UNCHANGED << built, modules, handlers, subs, status, nCalls, nEvents, nSubscribes >>
    /\ UNCHANGED << heap, instances, clock, made >>
    /\ UNCHANGED << threads, emitter >>

\* variant of HandleReturn: a handler that failed is invoked a second time
HandleReturnRetry ==
    /\ Running("Handle", "ret")
    /\ IF ret.err # Nil /\ Top.i = 0
       THEN /\ stack' = Call([Top EXCEPT !.i = 1],
                             Frame("handler", "body", Top.call, Top.ctx,
                                   Top.cmd, Top.h, NoEvent, NoFields, << >>, 0))
            /\ trace' = Append(trace, Entry("handler.call", Top.call, 0,
                                            TypeOf(Top.cmd), 0, Top.h, Void))
            /\ UNCHANGED << ret, status >>
       ELSE /\ ret' = HandleResult(ret)
            /\ trace' = Append(trace, Entry("Handle.ret", Top.call, 0,
                                            TypeOf(Top.cmd), 0, Top.h,
                                            HandleResult(ret)))
            /\ stack' = Pop
            /\ status' = AfterReturn
    /\ UNCHANGED << built, modules, handlers, subs, nCalls, nEvents, nSubscribes >>
    /\ UNCHANGED << heap, instances, clock, made >>
    /\ UNCHANGED << threads, emitter >>

\* func (a *App) Handle: return handler(ctx, cmd)
HandleReturn ==
    /\ Running("Handle", "ret")
    /\ ret' = HandleResult(ret)
    /\ trace' = Append(trace, Entry("Handle.ret", Top.call, 0, TypeOf(Top.cmd), 0,
                                    Top.h, HandleResult(ret)))
    /\ stack' = Pop
    /\ status' = AfterReturn
    /\ UNCHANGED << built, modules, handlers, subs, nCalls, nEvents, nSubscribes >>
    /\ UNCHANGED << heap, instances, clock, made >>
    /\ UNCHANGED << threads, emitter >>

\* variant of EmitAfterWrite: a failed write ends Emit
EmitAfterWriteAbort(i, e) == IF e = Nil THEN i + 1 ELSE Len(EmitBody) + 1

\* the statement of Emit that follows statement i, the write having returned e
\* (Emit has no early return: it logs the failure and goes on)
EmitAfterWrite(i, e) == i + 1

EmitAt(stmt) ==
    /\ Running("Emit", "run")
    /\ Top.i <= Len(EmitBody)
    /\ EmitBody[Top.i] = stmt

\* if err := e.LogWriter.Write(event); err != nil { log.Printf(...) }
EmitWrite ==
    /\ EmitAt("write")
    /\ \E e \in WriteErrors :
         LET w == Entry("Write.ret", Top.call, Top.ev.id, TypeOf(Top.ev), 0, "",
                        [res |-> Nil, err |-> e])
             l == Entry("log.Printf", Top.call, Top.ev.id, TypeOf(Top.ev), 0, "",
                        [res |-> Nil, err |-> e])
         IN /\ trace' = IF e = Nil THEN Append(trace, w)
                        ELSE Append(Append(trace, w), l)
            /\ stack' = Append(Pop, [Top EXCEPT !.i = EmitAfterWrite(Top.i, e)])
    /\ UNCHANGED << built, modules, handlers, subs, ret, status, nCalls, nEvents,
                    nSubscribes >>
    /\ UNCHANGED << heap, instances, clock, made >>
    /\ UNCHANGED << threads, emitter >>

\* variant of DispatchList: an event handed over by value also reaches the
\* subscribers of its pointer type, and the other way round
DispatchListEitherForm(m, ev) ==
    LET other == {t \in DOMAIN m : \/ t \in DOMAIN EvtElem /\ EvtElem[t] = TypeOf(ev)
                                   \/ TypeOf(ev) \in DOMAIN EvtElem /\ EvtElem[TypeOf(ev)] = t}
    IN IF TypeOf(ev) \in DOMAIN m THEN m[TypeOf(ev)]
       ELSE IF other # {} THEN m[CHOOSE t \in other : TRUE]
       ELSE << >>

RECURSIVE Concat(_, _)
\* the lists of m under the types of S, one after the other
Concat(m, S) ==
    IF S = {} THEN << >>
    ELSE LET t == CHOOSE x \in S : TRUE IN m[t] \o Concat(m, S \ {t})

\* variant of DispatchList: an event reaches the subscribers of every type
DispatchListAll(m, ev) == Concat(m, DOMAIN m)

\* variant of DispatchList: a recursion guard, an event type that is being
\* dispatched further up the call stack is delivered to nobody
DispatchListGuarded(m, ev) ==
    IF \E k \in 1..Len(stack) : stack[k].fn = "Dispatch" /\ TypeOf(stack[k].ev) = TypeOf(ev)
    THEN << >>
    ELSE IF TypeOf(ev) \in DOMAIN m THEN m[TypeOf(ev)] ELSE << >>

\* handlers, exists := d.handlers[reflect.TypeOf(event)]: the slice Dispatch
\* ranges over, empty when the key is absent
DispatchList(m, ev) == IF TypeOf(ev) \in DOMAIN m THEN m[TypeOf(ev)] ELSE << >>

\* variant of AfterLookup: the lookup of a missing key inserts an empty slice
AfterLookupInserting(m, ev) ==
    IF TypeOf(ev) \in DOMAIN m THEN m
    ELSE [x \in DOMAIN m \cup {TypeOf(ev)} |-> IF x = TypeOf(ev) THEN << >> ELSE m[x]]

\* the dispatcher's map after that lookup: reading a Go map inserts nothing
AfterLookup(m, ev) == m

\* e.Dispatcher.Dispatch(ctx, event): the call, and Dispatch's lookup of the
\* event's type
EmitDispatch ==
    /\ EmitAt("dispatch")
    /\ subs' = AfterLookup(subs, Top.ev)
    /\ LET hs == DispatchList(subs, Top.ev) IN
         /\ stack' = Call([Top EXCEPT !.i = Top.i + 1],
                          Frame("Dispatch", "range", Top.call, Top.ctx, NoCmd, "",
                                Top.ev, NoFields, hs, 1))
         /\ trace' = Append(trace, Entry("Dispatch.call", Top.call, Top.ev.id,
                                         TypeOf(Top.ev), Len(hs), "", Void))
    /\ UNCHANGED << built, modules, handlers, ret, status, nCalls, nEvents,
                    nSubscribes >>
    /\ UNCHANGED << heap, instances, clock, made >>
    /\ UNCHANGED << threads, emitter >>

\* the end of Emit
EmitReturn ==
    /\ Running("Emit", "run")
    /\ Top.i > Len(EmitBody)
    /\ stack' = Pop
    /\ ret' = Void
    /\ status' = AfterReturn
    /\ trace' = Append(trace, Entry("Emit.ret", Top.call, Top.ev.id, TypeOf(Top.ev),
                                    0, "", Void))
    /\ UNCHANGED << built, modules, handlers, subs, nCalls, nEvents, nSubscribes >>
    /\ UNCHANGED << heap, instances, clock, made >>
    /\ UNCHANGED << threads, emitter >>

\* variant of Range: the slice is visited from its end
RangeBackwards(hs, i) == hs[Len(hs) + 1 - i]

\* the i-th handler Dispatch visits: for _, handler := range handlers
Range(hs, i) == hs[i]

\* variant of Ranged: the loop looks at the map's list at every iteration
RangedLive(hs, m, ev) == DispatchList(m, ev)

\* the slice the loop ranges over: `range handlers` evaluates handlers once,
\* the slice header (with its length) that the lookup gave, whatever is
\* assigned to d.handlers[eventType] while the loop runs
Ranged(hs, m, ev) == hs

\* for _, handler := range handlers { handler(event) }: the call of the i-th
DispatchInvoke ==
    /\ Running("Dispatch", "range")
    /\ Top.i <= Len(Ranged(Top.hs, subs, Top.ev))
    /\ LET s == Range(Ranged(Top.hs, subs, Top.ev), Top.i) IN
         /\ stack' = Push(Frame("subscriber", "body", Top.call, Top.ctx, NoCmd, s,
                                Top.ev, Read(heap, Top.ev), << >>, Top.i))
         /\ trace' = Append(trace, Entry("subscriber.call", Top.call, Top.ev.id,
                                         TypeOf(Top.ev), Top.i, s, Void))
    /\ UNCHANGED << built, modules, handlers, subs, ret, status, nCalls, nEvents,
                    nSubscribes >>
    /\ UNCHANGED << heap, instances, clock, made >>
    /\ UNCHANGED << threads, emitter >>

\* the end of the range loop: Dispatch returns
DispatchReturn ==
    /\ Running("Dispatch", "range")
    /\ Top.i > Len(Ranged(Top.hs, subs, Top.ev))
    /\ stack' = Pop
    /\ ret' = Void
    /\ trace' = Append(trace, Entry("Dispatch.ret", Top.call, Top.ev.id,
                                    TypeOf(Top.ev), Len(Top.hs), "", Void))
    /\ UNCHANGED << built, modules, handlers, subs, status, nCalls, nEvents,
                    nSubscribes >>
    /\ UNCHANGED << heap, instances, clock, made >>
    /\ UNCHANGED << threads, emitter >>

\* a subscriber calls app.Handle(ctx, cmd)
SubscriberHandle ==
    /\ Running("subscriber", "body")
    /\ built
    /\ nCalls < MaxCalls
    /\ \E t \in CmdTypes :
         /\ stack' = Call([Top EXCEPT !.pc = "called"],
                          Frame("Handle", "lookup", nCalls + 1, Top.ctx,
                                Command(t, "fromEvent"), "", NoEvent, NoFields,
                                << >>, 0))
         /\ trace' = Append(trace, Entry("Handle.call", nCalls + 1, Top.ev.id, t,
                                         Len(stack), Top.h, Void))
    /\ nCalls' = nCalls + 1
    /\ UNCHANGED << built, modules, handlers, subs, ret, status, nEvents, nSubscribes >>
    /\ UNCHANGED << heap, instances, clock, made >>
    /\ UNCHANGED << threads, emitter >>

\* variant of DispatchNext: an error ends the loop
DispatchNextStopOnError(hs, i, r) == IF r.err = Nil THEN i + 1 ELSE Len(hs) + 1

\* the index Dispatch goes on with once the i-th subscriber returned r: the
\* loop discards what the handler returns
DispatchNext(hs, i, r) == i + 1

\* a subscriber returns: its own (result, error), or that of the command it
\* dispatched (return app.Handle(ctx, cmd))
SubscriberReturn ==
    /\ status = "running" /\ stack # << >> /\ Top.fn = "subscriber"
    /\ \E r \in (IF Top.pc = "called" THEN {ret} ELSE SubscriberReturns(Top.h)) :
         /\ ret' = r
         /\ stack' = Return([Caller EXCEPT !.i = DispatchNext(Caller.hs, Caller.i, r)])
         /\ trace' = Append(trace, Entry("subscriber.ret", Top.call, Top.ev.id,
                                         TypeOf(Top.ev), Top.i, Top.h, r))
    /\ UNCHANGED << built, modules, handlers, subs, status, nCalls, nEvents,
                    nSubscribes >>
    /\ UNCHANGED << heap, instances, clock, made >>
    /\ UNCHANGED << threads, emitter >>

\* the frames a panic raised in the top frame leaves on the stack: nothing
\* on the way up recovers, so it unwinds every caller and ends the program
Unwind(st) == << >>

\* a subscriber panics
SubscriberPanic ==
    /\ status = "running" /\ stack # << >> /\ Top.fn = "subscriber"
    /\ stack' = Unwind(stack)
    /\ status' = IF Unwind(stack) = << >> THEN "panicked" ELSE "running"
    /\ trace' = Append(trace, Entry("subscriber.panic", Top.call, Top.ev.id,
                                    TypeOf(Top.ev), Top.i, Top.h, Void))
    /\ UNCHANGED << built, modules, handlers, subs, ret, nCalls, nEvents, nSubscribes >>
    /\ UNCHANGED << heap, instances, clock, made >>
    /\ UNCHANGED << threads, emitter >>

Next ==
    \/ Subscribe
    \/ MainHandle
    \/ MainEmit
    \/ Handle
    \/ HandlerEmit
    \/ HandlerReturn
    \/ HandleReturn
    \/ EmitWrite
    \/ EmitDispatch
    \/ EmitReturn
    \/ DispatchInvoke
    \/ DispatchReturn
    \/ SubscriberHandle
    \/ SubscriberReturn
    \/ SubscriberPanic

Spec == Init /\ [][Next]_vars

\* A subscriber writes an exported field of the event it was handed:
\* orderEvent := event.(*OrderCreatedEvent) is the pointer every holder of
\* the event shares.
SubscriberMutate ==
    /\ Running("subscriber", "body")
    /\ Read(heap, Top.ev).Aggregate # "tampered"
    /\ heap' = [heap EXCEPT ![Top.ev.id].Aggregate = "tampered"]
    /\ trace' = Append(trace, Entry("subscriber.write", Top.call, Top.ev.id,
                                    TypeOf(Top.ev), Top.i, Top.h, Void))
    /\ UNCHANGED << built, modules, handlers, subs, stack, ret, status, nCalls,
                    nEvents, nSubscribes, instances, clock, made >>
    /\ UNCHANGED << threads, emitter >>

\* the event pipeline alone, with subscribers that may write to the event
NextPipeline ==
    \/ Subscribe
    \/ MainEmit
    \/ EmitWrite
    \/ EmitDispatch
    \/ EmitReturn
    \/ DispatchInvoke
    \/ DispatchReturn
    \/ SubscriberMutate
    \/ SubscriberReturn
    \/ SubscriberPanic

SpecPipeline == Init /\ [][NextPipeline]_vars

\* A client wired like examples/simple_app: every command handler emits one
\* event and then returns, a reacting subscriber is return app.Handle(ctx,
\* cmd), a plain subscriber only reports.  Which subscriber hangs on which
\* event type is decided by the Subscribe calls, and so is whether the
\* graph command -> event -> command has a cycle.

\* the event type a handler emits
EmittedBy(h) == IF h = "deleteUser" THEN "*PaymentProcessedEvent" ELSE "*OrderCreatedEvent"

\* the subscriber that sends a command, and the command it sends
Reacting == "s1"
ReactingCommand == "*CreateUserCommand"

\* call c has called Emit; that Emit has returned
HasEmitted(c) == \E i \in 1..Len(trace) : trace[i].op = "Emit.call" /\ trace[i].call = c
EmitReturned(c) == \E i \in 1..Len(trace) : trace[i].op = "Emit.ret" /\ trace[i].call = c

\* m.eventEmitter.Emit(event), the handler's one emission
ChainHandlerEmit ==
    /\ Running("handler", "body")
    /\ ~HasEmitted(Top.call)
    /\ HandlerEmit
    /\ stack'[Len(stack')].ev.type = EmittedBy(Top.h)

\* return createCmd, nil: the statement after the emission
ChainHandlerReturn ==
    /\ Running("handler", "body")
    /\ EmitReturned(Top.call)
    /\ HandlerReturn

\* return app.Handle(ctx, processPaymentCmd): the call
ChainSubscriberHandle ==
    /\ Running("subscriber", "body")
    /\ Top.h = Reacting
    /\ SubscriberHandle
    /\ stack'[Len(stack')].cmd.type = ReactingCommand

\* return app.Handle(ctx, processPaymentCmd): the return; a plain
\* subscriber returns at once
ChainSubscriberReturn ==
    /\ status = "running" /\ stack # << >> /\ Top.fn = "subscriber"
    /\ IF Top.h = Reacting THEN Top.pc = "called" ELSE Top.pc = "body"
    /\ SubscriberReturn

NextChain ==
    \/ Subscribe
    \/ MainHandle
    \/ MainEmit
    \/ Handle
    \/ ChainHandlerEmit
    \/ ChainHandlerReturn
    \/ HandleReturn
    \/ EmitWrite
    \/ EmitDispatch
    \/ EmitReturn
    \/ DispatchInvoke
    \/ DispatchReturn
    \/ ChainSubscriberHandle
    \/ ChainSubscriberReturn

SpecChain == Init /\ [][NextChain]_vars

\* the steps of a call that is under way: everything but the calls main makes
RunChain ==
    \/ Handle
    \/ ChainHandlerEmit
    \/ ChainHandlerReturn
    \/ HandleReturn
    \/ EmitWrite
    \/ EmitDispatch
    \/ EmitReturn
    \/ DispatchInvoke
    \/ DispatchReturn
    \/ ChainSubscriberHandle
    \/ ChainSubscriberReturn

\* the same client when every handler, subscriber and log write returns: the
\* one goroutine that runs a call goes on to its next statement
SpecChainFair == SpecChain /\ WF_vars(RunChain)

\* the event pipeline with events and subscriptions in both forms
NextForms ==
    \/ SubscribeForm
    \/ MainEmitForm
    \/ EmitWrite
    \/ EmitDispatch
    \/ EmitReturn
    \/ DispatchInvoke
    \/ DispatchReturn
    \/ SubscriberReturn

SpecForms == Init /\ [][NextForms]_vars

\* A subscriber calls dispatcher.Subscribe(eventType, handler) for the type
\* of the event it was handed, while Dispatch ranges over that type's list.
SubscriberSubscribe ==
    /\ Running("subscriber", "body")
    /\ nSubscribes < MaxSubscribes
    /\ \E s \in Subscribers :
         /\ subs' = AppendHandler(subs, TypeOf(Top.ev), s)
         /\ trace' = Append(trace, Entry("Subscribe.ret", Top.call, Top.ev.id,
                                         TypeOf(Top.ev),
                                         Len(AppendHandler(subs, TypeOf(Top.ev), s)[TypeOf(Top.ev)]),
                                         s, Void))
    /\ nSubscribes' = nSubscribes + 1
    /\ UNCHANGED << built, modules, handlers, stack, ret, status, nCalls, nEvents >>
    /\ UNCHANGED << heap, instances, clock, made >>
    /\ UNCHANGED << threads, emitter >>

\* main calls eventEmitter.Emit(ctx, event) once more, after an Emit that
\* has returned
MainEmitAgain ==
    /\ status = "idle"
    /\ nEvents >= 1 /\ nEvents < MaxEvents
    /\ \E t \in EvtTypes, ctx \in Contexts :
         /\ stack' = << EmitFrame(0, ctx, [id |-> nEvents + 1, type |-> t]) >>
         /\ trace' = Append(trace, Entry("Emit.call", 0, nEvents + 1, t, 0, "", Void))
         /\ heap' = Alloc(heap, nEvents + 1, t)
    /\ nEvents' = nEvents + 1
    /\ ret' = Void
    /\ status' = "running"
    /\ UNCHANGED << built, modules, handlers, subs, nCalls, nSubscribes >>
    /\ UNCHANGED << instances, clock, made >>
    /\ UNCHANGED << threads, emitter >>

\* the event pipeline with subscribers that subscribe, over several events
NextResubscribe ==
    \/ Subscribe
    \/ MainEmit
    \/ MainEmitAgain
    \/ EmitWrite
    \/ EmitDispatch
    \/ EmitReturn
    \/ DispatchInvoke
    \/ DispatchReturn
    \/ SubscriberSubscribe
    \/ SubscriberReturn

SpecResubscribe == Init /\ [][NextResubscribe]_vars

\* main calls app.Handle(ctx, nil): the command is the nil interface value
MainHandleNil ==
    /\ status = "idle"
    /\ built
    /\ \E ctx \in Contexts :
         /\ stack' = << Frame("Handle", "lookup", 1, ctx, Command(NilType, ""),
                              "", NoEvent, NoFields, << >>, 0) >>
         /\ trace' = << Entry("Handle.call", 1, 0, NilType, 0, "", Void) >>
    /\ nCalls' = 1 /\ nEvents' = 0 /\ ret' = Void
    /\ status' = "running"
    /\ UNCHANGED << built, modules, handlers, subs, nSubscribes >>
    /\ heap' = NoEvents
    /\ UNCHANGED << instances, clock, made >>
    /\ UNCHANGED << threads, emitter >>

\* the router with callers that also pass nil
NextNil ==
    \/ NewApp
    \/ MainHandle
    \/ MainHandleNil
    \/ Handle
    \/ HandlerReturn
    \/ HandleReturn

SpecNil == InitRouter /\ [][NextNil]_vars

\* the router alone: NewApp over every list of modules, then Handle calls
\* whose handlers emit nothing
NextRouter ==
    \/ NewApp
    \/ MainHandle
    \/ Handle
    \/ HandlerReturn
    \/ HandleReturn

SpecRouter == InitRouter /\ [][NextRouter]_vars

----------------------------------------------------------------------------
(* Module constructors: each takes the *EventEmitter the module will emit  *)
(* through.                                                                *)

NilEmitter == "nil"

\* the *EventEmitter values main may pass to a constructor
Emitters == {NilEmitter, "eventEmitter"}

\* what a constructor call does: it panics, or it returns the module
Panics(msg) == [panic |-> TRUE, msg |-> msg, eventEmitter |-> NilEmitter]
Returns(em) == [panic |-> FALSE, msg |-> "", eventEmitter |-> em]

\* example_test.go: func NewOrderModule(eventEmitter *gocmdevt.EventEmitter)
ExampleNewOrderModule(em) ==
    IF em = NilEmitter THEN Panics("eventEmitter cannot be nil") ELSE Returns(em)

\* matmaster/main.go: func NewStudentModule(eventEmitter *gocmdevt.EventEmitter)
NewStudentModule(em) ==
    IF em = NilEmitter THEN Panics("eventEmitter cannot be nil") ELSE Returns(em)

\* examples/simple_app: func NewOrderModule(eventEmitter *gocmdevt.EventEmitter)
SimpleAppNewOrderModule(em) == Returns(em)

Constructors == {"example.NewOrderModule", "matmaster.NewStudentModule",
                 "simpleapp.NewOrderModule"}

Construct(c, em) ==
    CASE c = "example.NewOrderModule" -> ExampleNewOrderModule(em)
      [] c = "matmaster.NewStudentModule" -> NewStudentModule(em)
      [] c = "simpleapp.NewOrderModule" -> SimpleAppNewOrderModule(em)

\* main calls a module constructor
NewModule ==
    /\ status = "idle"
    /\ Len(instances) < MaxInstances
    /\ \E c \in Constructors, em \in Emitters :
         LET r == Construct(c, em) IN
         IF r.panic
         THEN /\ status' = "panicked"
              /\ trace' = << Entry("constructor.panic", 0, 0, "", 0, c, Void) >>
              /\ UNCHANGED instances
         ELSE /\ instances' = Append(instances,
                                     [ctor |-> c, eventEmitter |-> r.eventEmitter,
                                      emitted |-> FALSE])
              /\ trace' = << Entry("constructor.ret", 0, 0, "", 0, c, Void) >>
              /\ UNCHANGED status
    /\ UNCHANGED << built, modules, handlers, subs, stack, ret, nCalls, nEvents,
                    nSubscribes, heap, clock, made >>
    /\ UNCHANGED << threads, emitter >>

\* a command handler of a built module calls m.eventEmitter.Emit(...): Emit
\* reads e.LogWriter, a nil pointer dereference when the receiver e is nil
ModuleEmit ==
    /\ status = "idle"
    /\ \E k \in 1..Len(instances) :
         IF instances[k].eventEmitter = NilEmitter
         THEN /\ status' = "panicked"
              /\ trace' = << Entry("Emit.panic", 0, 0, "", k, instances[k].ctor, Void) >>
              /\ UNCHANGED instances
         ELSE /\ instances' = [instances EXCEPT ![k].emitted = TRUE]
              /\ trace' = << Entry("Emit.ret", 0, 0, "", k, instances[k].ctor, Void) >>
              /\ UNCHANGED status
    /\ UNCHANGED << built, modules, handlers, subs, stack, ret, nCalls, nEvents,
                    nSubscribes, heap, clock, made >>
    /\ UNCHANGED << threads, emitter >>

NextModules ==
    \/ NewModule
    \/ ModuleEmit

\* main builds modules and their handlers emit
SpecModules == InitRouter /\ [][NextModules]_vars

----------------------------------------------------------------------------
(* The event envelope: NewBaseEvent and generateEventID.  Strings that the *)
(* code computes are sequences of characters.                              *)

\* the time t of day, in fractions of a second
OfDay(t) == ((t.hour * 60 + t.minute) * 60 + t.second) * TicksPerSecond + t.frac

\* the time one fraction of a second after t (the model's clock stays within
\* one day)
Later(t) ==
    IF t.frac + 1 < TicksPerSecond THEN [t EXCEPT !.frac = t.frac + 1]
    ELSE IF t.second < 59 THEN [t EXCEPT !.frac = 0, !.second = t.second + 1]
    ELSE IF t.minute < 59
         THEN [t EXCEPT !.frac = 0, !.second = 0, !.minute = t.minute + 1]
    ELSE [t EXCEPT !.frac = 0, !.second = 0, !.minute = 0, !.hour = t.hour + 1]

Digit == << "0", "1", "2", "3", "4", "5", "6", "7", "8", "9" >>

RECURSIVE Pad(_, _)
\* n in decimal, w characters wide, zero-padded on the left
Pad(n, w) == IF w = 0 THEN << >> ELSE Append(Pad(n \div 10, w - 1), Digit[(n % 10) + 1])

\* t.Format("20060102150405"): year, month, day, hour, minute, second
FormatStamp(t) ==
    Pad(t.year, 4) \o Pad(t.month, 2) \o Pad(t.day, 2) \o
    Pad(t.hour, 2) \o Pad(t.minute, 2) \o Pad(t.second, 2)

\* t.Format("000000"): the layout holds no reference element ("000000" is not
\* preceded by "." or ","), so it is copied as it stands
FormatZeros(t) == << "0", "0", "0", "0", "0", "0" >>

HexDigit == << "0", "1", "2", "3", "4", "5", "6", "7", "8", "9",
               "a", "b", "c", "d", "e", "f" >>

RECURSIVE EncodeToString(_)
\* hex.EncodeToString(bytes): two lower-case hexadecimal digits per byte
EncodeToString(bytes) ==
    IF bytes = << >> THEN << >>
    ELSE << HexDigit[(Head(bytes) \div 16) + 1], HexDigit[(Head(bytes) % 16) + 1] >>
         \o EncodeToString(Tail(bytes))

\* bytes := make([]byte, 16)
IDBytes == 16

\* The k-th successful rand.Read of the program.  crypto/rand is taken as an
\* ideal source: no two reads return the same 16 bytes.
RandomRead(k) == [i \in 1..IDBytes |-> (k * 57 + i * 11) % 256]

\* what rand.Read(bytes) may do, k successful reads having been made: fail,
\* or fill the buffer
Reads(k) == { [err |-> TRUE, bytes |-> << >>], [err |-> FALSE, bytes |-> RandomRead(k + 1)] }

\* variant of generateEventID: a failed read yields no id
generateEventIDOrNothing(read, now) ==
    IF read.err THEN << >> ELSE EncodeToString(read.bytes)

\* func generateEventID() string, rand.Read having done `read`, at time now
generateEventID(read, now) ==
    IF read.err
    THEN FormatStamp(now) \o << "-" >> \o FormatZeros(now)
    ELSE EncodeToString(read.bytes)

\* variant of BaseEventOf: the event type and the aggregate id change places
BaseEventSwapped(eventType, aggregateID, version, id, now) ==
    [ID |-> id, Type |-> aggregateID, Time |-> now, Aggregate |-> eventType,
     Version |-> version]

\* the BaseEvent literal of NewBaseEvent
BaseEventOf(eventType, aggregateID, version, id, now) ==
    [ID |-> id, Type |-> eventType, Time |-> now, Aggregate |-> aggregateID,
     Version |-> version]

\* the accessors of BaseEvent
EventID(e) == e.ID
EventType(e) == e.Type
EventTime(e) == e.Time
AggregateID(e) == e.Aggregate
EventVersion(e) == e.Version

\* the arguments NewBaseEvent is called with
EventTypeNames == {"OrderCreated", ""}
AggregateIDs == {"order-123", ""}
Versions == {0, 1}

\* the clock can still move
CanTick == OfDay(clock) - OfDay(StartOfClock) < MaxTicks

\* what time.Now() may return to a call made at clock or shortly after
Nows == IF CanTick THEN {clock, Later(clock)} ELSE {clock}

\* the successful reads of rand.Read so far
SuccessfulReads == Cardinality({k \in 1..Len(made) : ~made[k].read.err})

\* func NewBaseEvent(eventType, aggregateID string, version int) BaseEvent.
\* The id is generated first, the time field is read after it: the clock may
\* have moved in between.
NewBaseEvent ==
    /\ status = "idle"
    /\ Len(made) < MaxMade
    /\ \E eventType \in EventTypeNames, aggregateID \in AggregateIDs,
          version \in Versions, read \in Reads(SuccessfulReads),
          now \in Nows :
         /\ made' = Append(made,
                [eventType |-> eventType, aggregateID |-> aggregateID,
                 version |-> version, read |-> read, at |-> clock,
                 event |-> BaseEventOf(eventType, aggregateID, version,
                                       generateEventID(read, clock), now)])
         /\ clock' = now
    /\ UNCHANGED << built, modules, handlers, subs, stack, ret, status, nCalls,
                    nEvents, nSubscribes, trace, heap, instances >>
    /\ UNCHANGED << threads, emitter >>

\* time passes
Tick ==
    /\ CanTick
    /\ clock' = Later(clock)
    /\ UNCHANGED << built, modules, handlers, subs, stack, ret, status, nCalls,
                    nEvents, nSubscribes, trace, heap, instances, made >>
    /\ UNCHANGED << threads, emitter >>

NextEvents ==
    \/ NewBaseEvent
    \/ Tick

\* events are built as time passes
SpecEvents == InitRouter /\ [][NextEvents]_vars

----------------------------------------------------------------------------
(* Goroutines sharing one dispatcher: Subscribe and Dispatch run at the    *)
(* same time.  A map access takes time: it begins and it ends.             *)

Reading(g) == threads[g].pc = "reading"
Writing(g) == threads[g].pc = "writing"

\* the access in progress of goroutine o conflicts with an access of the
\* given kind: two accesses conflict unless both are reads
Conflicting(o, kind) == Writing(o) \/ (kind = "write" /\ Reading(o))

\* InMemoryDispatcher holds the map and nothing else: no mutex, so nothing a
\* goroutine has to wait for before it accesses the map
MayAccess(g, kind) == TRUE

\* goroutine g begins an access of the given kind, reaching pc
Begin(g, kind, pc) ==
    [o \in Goroutines |->
        IF o = g
        THEN [threads[g] EXCEPT
                !.pc = pc,
                !.raced = \E x \in Goroutines \ {g} : Conflicting(x, kind)]
        ELSE IF Conflicting(o, kind) THEN [threads[o] EXCEPT !.raced = TRUE]
        ELSE threads[o]]

\* m[t] = list
MapAssign(m, t, list) == [x \in DOMAIN m \cup {t} |-> IF x = t THEN list ELSE m[x]]

\* What a read of m[t] by g may return.  A read that overlapped a write is a
\* data race: it may see the map as it is or as a writer in progress is
\* about to leave it.
ReadValues(g, t) ==
    {DispatchList(subs, [type |-> t])} \cup
    {Append(threads[o].hs, threads[o].h) :
        o \in {x \in Goroutines \ {g} : /\ threads[g].raced /\ Writing(x)
                                          /\ threads[x].typ = t}}

\* go dispatcher.Subscribe(eventType, handler)
GoSubscribe ==
    /\ status = "idle"
    /\ nSubscribes < MaxSubscribes
    /\ \E g \in Goroutines, t \in EvtTypes, s \in Subscribers :
         /\ threads[g] = Idle
         /\ threads' = [threads EXCEPT
                           ![g] = Doing("Subscribe", "read", 0, 0, t, s, << >>, FALSE)]
    /\ nSubscribes' = nSubscribes + 1
    /\ UNCHANGED << built, modules, handlers, subs, stack, ret, status, nCalls,
                    nEvents, trace, heap, instances, clock, made, emitter >>

\* go dispatcher.Dispatch(ctx, event)
GoDispatch ==
    /\ status = "idle"
    /\ \E g \in Goroutines, t \in EvtTypes :
         /\ threads[g] = Idle
         /\ threads' = [threads EXCEPT
                           ![g] = Doing("Dispatch", "read", 0, 0, t, "", << >>, FALSE)]
    /\ UNCHANGED << built, modules, handlers, subs, stack, ret, status, nCalls,
                    nEvents, nSubscribes, trace, heap, instances, clock, made,
                    emitter >>

\* d.handlers[eventType]: the map read begins
BeginRead ==
    /\ status = "idle"
    /\ \E g \in Goroutines :
         /\ threads[g].pc = "read"
         /\ MayAccess(g, "read")
         /\ threads' = Begin(g, "read", "reading")
    /\ UNCHANGED << built, modules, handlers, subs, stack, ret, status, nCalls,
                    nEvents, nSubscribes, trace, heap, instances, clock, made,
                    emitter >>

\* The map read ends.  The runtime may stop the program when it notices the
\* race ("fatal error: concurrent map read and map write").
EndRead ==
    /\ status = "idle"
    /\ \E g \in Goroutines :
         /\ Reading(g)
         /\ \/ /\ threads[g].raced
               /\ status' = "fatal"
               /\ UNCHANGED threads
            \/ /\ \E hs \in ReadValues(g, threads[g].typ) :
                    threads' = [threads EXCEPT
                       ![g] = [threads[g] EXCEPT
                                 !.pc = IF threads[g].op = "Subscribe"
                                        THEN "write" ELSE "range",
                                 !.hs = hs,
                                 !.raced = FALSE]]
               /\ UNCHANGED status
    /\ UNCHANGED << built, modules, handlers, subs, stack, ret, nCalls,
                    nEvents, nSubscribes, trace, heap, instances, clock, made,
                    emitter >>

\* d.handlers[eventType] = append(...): the map write begins
BeginWrite ==
    /\ status = "idle"
    /\ \E g \in Goroutines :
         /\ threads[g].pc = "write"
         /\ MayAccess(g, "write")
         /\ threads' = Begin(g, "write", "writing")
    /\ UNCHANGED << built, modules, handlers, subs, stack, ret, status, nCalls,
                    nEvents, nSubscribes, trace, heap, instances, clock, made,
                    emitter >>

\* the map write ends: Subscribe returns
EndWrite ==
    /\ status = "idle"
    /\ \E g \in Goroutines :
         /\ Writing(g)
         /\ \/ /\ threads[g].raced
               /\ status' = "fatal"
               /\ UNCHANGED << threads, subs >>
            \/ /\ subs' = MapAssign(subs, threads[g].typ,
                                    Append(threads[g].hs, threads[g].h))
               /\ threads' = [threads EXCEPT ![g] = Idle]
               /\ UNCHANGED status
    /\ UNCHANGED << built, modules, handlers, stack, ret, nCalls,
                    nEvents, nSubscribes, trace, heap, instances, clock, made,
                    emitter >>

\* for _, handler := range handlers { handler(event) }: Dispatch returns
GoDispatchRange ==
    /\ status = "idle"
    /\ \E g \in Goroutines :
         /\ threads[g].pc = "range"
         /\ threads' = [threads EXCEPT ![g] = Idle]
    /\ UNCHANGED << built, modules, handlers, subs, stack, ret, status, nCalls,
                    nEvents, nSubscribes, trace, heap, instances, clock, made,
                    emitter >>

NextRace ==
    \/ GoSubscribe
    \/ GoDispatch
    \/ BeginRead
    \/ EndRead
    \/ BeginWrite
    \/ EndWrite
    \/ GoDispatchRange

\* two goroutines subscribe and dispatch on the same dispatcher
SpecRace == Init /\ [][NextRace]_vars

----------------------------------------------------------------------------
(* Goroutines sharing one emitter: Emit runs in both at the same time.     *)
(* The collaborators are safe to share: a Write and a Dispatch are each    *)
(* one step.  The history holds the steps of both goroutines, in the       *)
(* order they happen; the call field of an entry is the goroutine.         *)

\* variant of Emitting: Emit keeps its event in a field of the emitter,
\* which the latest call has overwritten
EmittingLast(g) ==
    LET o == CHOOSE x \in Goroutines :
                 /\ threads[x].op = "Emit"
                 /\ \A y \in Goroutines :
                       threads[y].op = "Emit" => threads[y].ev <= threads[x].ev
    IN [id |-> threads[o].ev, type |-> threads[o].typ]

\* the parameter `event` of the Emit call goroutine g is in
Emitting(g) == [id |-> threads[g].ev, type |-> threads[g].typ]

\* goroutine g is at the statement stmt of Emit
GoEmitAt(g, stmt) ==
    /\ status = "idle"
    /\ threads[g].op = "Emit"
    /\ threads[g].i <= Len(EmitBody)
    /\ EmitBody[threads[g].i] = stmt

\* go eventEmitter.Emit(ctx, event)
GoEmit ==
    /\ status = "idle"
    /\ nEvents < MaxEvents
    /\ \E g \in Goroutines, t \in EvtTypes :
         /\ threads[g] = Idle
         /\ threads' = [threads EXCEPT
                           ![g] = Doing("Emit", "run", 1, nEvents + 1, t, "", << >>, FALSE)]
         /\ trace' = Append(trace, Entry("Emit.call", g, nEvents + 1, t, 0, "", Void))
    /\ nEvents' = nEvents + 1
    /\ UNCHANGED << built, modules, handlers, subs, stack, ret, status, nCalls,
                    nSubscribes, heap, instances, clock, made, emitter >>

\* e.LogWriter.Write(event), and the log.Printf of its error
GoEmitWrite ==
    \E g \in Goroutines :
        /\ GoEmitAt(g, "write")
        /\ \E e \in WriteErrors :
             /\ trace' = Append(trace,
                    Entry("Write.ret", g, Emitting(g).id, TypeOf(Emitting(g)), 0,
                          emitter.LogWriter, [res |-> Nil, err |-> e]))
             /\ threads' = [threads EXCEPT ![g].i = EmitAfterWrite(threads[g].i, e)]
        /\ UNCHANGED << built, modules, handlers, subs, stack, ret, status, nCalls,
                        nEvents, nSubscribes, heap, instances, clock, made, emitter >>

\* e.Dispatcher.Dispatch(ctx, event): the whole fan-out
GoEmitDispatch ==
    \E g \in Goroutines :
        /\ GoEmitAt(g, "dispatch")
        /\ LET ev == Emitting(g)
               hs == DispatchList(subs, ev)
               calls == [k \in 1..Len(hs) |->
                           Entry("subscriber.call", g, ev.id, TypeOf(ev), k,
                                 Range(hs, k), Void)]
           IN trace' = Append(trace \o calls,
                              Entry("Dispatch.ret", g, ev.id, TypeOf(ev), Len(hs),
                                    emitter.Dispatcher, Void))
        /\ threads' = [threads EXCEPT ![g].i = threads[g].i + 1]
        /\ UNCHANGED << built, modules, handlers, subs, stack, ret, status, nCalls,
                        nEvents, nSubscribes, heap, instances, clock, made, emitter >>

\* Emit returns
GoEmitReturn ==
    \E g \in Goroutines :
        /\ status = "idle"
        /\ threads[g].op = "Emit"
        /\ threads[g].i > Len(EmitBody)
        /\ trace' = Append(trace, Entry("Emit.ret", g, threads[g].ev, threads[g].typ,
                                        0, "", Void))
        /\ threads' = [threads EXCEPT ![g] = Idle]
        /\ UNCHANGED << built, modules, handlers, subs, stack, ret, status, nCalls,
                        nEvents, nSubscribes, heap, instances, clock, made, emitter >>

\* main subscribes while no goroutine is inside Emit
QuietSubscribe ==
    /\ \A g \in Goroutines : threads[g] = Idle
    /\ Subscribe

NextEmitters ==
    \/ QuietSubscribe
    \/ GoEmit
    \/ GoEmitWrite
    \/ GoEmitDispatch
    \/ GoEmitReturn

\* two goroutines emit through the same emitter
SpecEmitters == Init /\ [][NextEmitters]_vars

----------------------------------------------------------------------------
(* Reading the history.                                                    *)

Idx == 1..Len(trace)

Is(i, op) == trace[i].op = op

\* C1: Handle on a command whose type has no registered handler returns a nil
\* result and the "no handler" error, and no handler runs between that call
\* and its return.
C1_UnregisteredFails ==
    \A i \in Idx :
        (Is(i, "Handle.ret") /\ trace[i].typ \notin DOMAIN handlers) =>
            /\ trace[i].val.res = Nil
            /\ trace[i].val.err = NoHandlerError([type |-> trace[i].typ])
            /\ trace[i].val.err # Nil
            /\ \A j \in 1..i :
                 (Is(j, "Handle.call") /\ trace[j].call = trace[i].call) =>
                     \A m \in j..i : ~Is(m, "handler.call")

\* a router that has handlers has refused a command of an unregistered type
C1_Witness ==
    /\ DOMAIN handlers # {}
    /\ status = "idle"
    /\ \E i \in Idx : Is(i, "Handle.ret") /\ trace[i].typ \notin DOMAIN handlers

\* the modules of the list passed to NewApp that expose command type t
Exposing(t) == {i \in 1..Len(modules) : t \in DOMAIN modules[i]}

LastExposing(t) == CHOOSE i \in Exposing(t) : \A j \in Exposing(t) : j <= i

\* C2: when several modules of the list register the same command type, the
\* handler of the module latest in the list is the registered one and the one
\* Handle invokes; the collision raises no error (NewApp returns the App).
C2_LastModuleWins ==
    built =>
        \A t \in CmdTypes :
            /\ (Exposing(t) = {}) <=> (t \notin DOMAIN handlers)
            /\ Exposing(t) # {} =>
                 /\ handlers[t] = modules[LastExposing(t)][t]
                 /\ \A i \in Idx :
                      (Is(i, "handler.call") /\ trace[i].typ = t) =>
                          trace[i].h = modules[LastExposing(t)][t]

\* two modules collide on a type, in either order, and Handle has invoked the
\* later one's handler
C2_Witness ==
    /\ Len(modules) = 2
    /\ modules[1] = OverrideModule /\ modules[2] = UserModule
    /\ \E i \in Idx : Is(i, "handler.call") /\ trace[i].h = "createUser"

\* C3: the (result, error) pair Handle returns for a registered command is
\* exactly the pair the resolved handler returned.
C3_PassThrough ==
    \A i \in Idx :
        (Is(i, "Handle.ret") /\ trace[i].typ \in DOMAIN handlers) =>
            /\ \E j \in 1..i :
                 /\ Is(j, "handler.ret")
                 /\ trace[j].call = trace[i].call
                 /\ trace[j].h = handlers[trace[i].typ]
                 /\ trace[j].val = trace[i].val
                 /\ i = Len(trace) => ret = trace[j].val

\* Handle has passed a handler's failure through, and a success
C3_Witness ==
    /\ \E i \in Idx : Is(i, "Handle.ret") /\ trace[i].val.err = ErrorOf("overridden")
    /\ \E i \in Idx : Is(i, "Handle.ret") /\ trace[i].val.res = ResultOf("deleteUser")

\* the subscribers of event e's type, as Dispatch found them
SubscribersOf(typ) == DispatchList(subs, [type |-> typ])

\* C4: no subscriber of an event is invoked before the log writer's Write for
\* that event has returned, for nested emissions as for outer ones.
C4_WriteBeforeSubscribers ==
    \A j \in Idx :
        Is(j, "subscriber.call") =>
            \E i \in 1..j : Is(i, "Write.ret") /\ trace[i].ev = trace[j].ev

\* a subscriber of a nested emission runs inside a subscriber of the outer one
C4_Witness ==
    /\ stack # << >> /\ Top.fn = "subscriber" /\ Top.ev.id = 2
    /\ \E n \in 1..Len(stack) : stack[n].fn = "subscriber" /\ stack[n].ev.id = 1

\* every call opened in trace[a..b] has returned by b
Closed(a, b) ==
    \A m \in a..b :
        /\ Is(m, "Handle.call") =>
             \E n \in m..b : Is(n, "Handle.ret") /\ trace[n].call = trace[m].call
        /\ Is(m, "Emit.call") =>
             \E n \in m..b : Is(n, "Emit.ret") /\ trace[n].ev = trace[m].ev
        /\ Is(m, "Dispatch.call") =>
             \E n \in m..b : Is(n, "Dispatch.ret") /\ trace[n].ev = trace[m].ev

\* C5: the subscribers of an event's type are invoked in the order they were
\* subscribed, each one only after the one before it has returned together
\* with everything it called.
C5_FanOutOrder ==
    \A j \in Idx :
        Is(j, "subscriber.call") =>
            /\ trace[j].k <= Len(SubscribersOf(trace[j].typ))
            /\ trace[j].h = SubscribersOf(trace[j].typ)[trace[j].k]
            /\ trace[j].k > 1 =>
                 /\ Is(j - 1, "subscriber.ret")
                 /\ trace[j - 1].ev = trace[j].ev
                 /\ trace[j - 1].k = trace[j].k - 1
                 /\ \E a \in 1..(j - 1) :
                      /\ Is(a, "subscriber.call")
                      /\ trace[a].ev = trace[j].ev
                      /\ trace[a].k = trace[j].k - 1
                      /\ Closed(a, j - 1)

\* two different subscribers of one type; the first dispatched a command
\* before it returned, and the second has been invoked
C5_Witness ==
    \E a \in Idx, m \in Idx, j \in Idx :
        /\ a < m /\ m < j
        /\ Is(a, "subscriber.call") /\ trace[a].k = 1
        /\ Is(m, "Handle.call")
        /\ Is(j, "subscriber.call") /\ trace[j].k = 2 /\ trace[j].ev = trace[a].ev
        /\ trace[a].h # trace[j].h

\* the program is not in the middle of a call
AtRest == status # "running"

\* C6 (as claimed): when a subscriber panics, every subscriber registered
\* after it for the same event type is still invoked for that event.
C6_PanicIsolated ==
    AtRest =>
        \A i \in Idx :
            Is(i, "subscriber.panic") =>
                \A k \in (trace[i].k + 1)..Len(SubscribersOf(trace[i].typ)) :
                    \E j \in i..Len(trace) :
                        /\ Is(j, "subscriber.call")
                        /\ trace[j].ev = trace[i].ev
                        /\ trace[j].k = k

\* C7: a non-nil error returned by a subscriber stops nothing: the next step
\* of the fan-out invokes the next subscriber of the list, and a fan-out that
\* returns has invoked every subscriber of the list once, in order.
C7_ErrorDoesNotStopFanOut ==
    /\ \A i \in Idx :
         (/\ Is(i, "subscriber.ret")
          /\ trace[i].val.err # Nil
          /\ trace[i].k < Len(SubscribersOf(trace[i].typ))
          /\ i < Len(trace)) =>
              /\ Is(i + 1, "subscriber.call")
              /\ trace[i + 1].ev = trace[i].ev
              /\ trace[i + 1].k = trace[i].k + 1
    /\ \A i \in Idx :
         Is(i, "Dispatch.ret") =>
             \A k \in 1..Len(SubscribersOf(trace[i].typ)) :
                 Cardinality({j \in 1..i : /\ Is(j, "subscriber.call")
                                           /\ trace[j].ev = trace[i].ev
                                           /\ trace[j].k = k}) = 1

\* the first subscriber returned an error, the second was invoked after it
\* and the fan-out returned
C7_Witness ==
    \E i \in Idx, j \in Idx, d \in Idx :
        /\ i < j /\ j < d
        /\ Is(i, "subscriber.ret") /\ trace[i].val.err # Nil /\ trace[i].k = 1
        /\ Is(j, "subscriber.call") /\ trace[j].ev = trace[i].ev /\ trace[j].k = 2
        /\ Is(d, "Dispatch.ret") /\ trace[d].ev = trace[i].ev

\* the entries of the history with operation op about event e
About(op, e) == {i \in Idx : Is(i, op) /\ trace[i].ev = e}

\* C8: when Write returns an error, Emit reports it once and goes on to hand
\* the event to the dispatcher once, over the same subscriber list as when
\* the write succeeds; Emit returns nothing to its caller.
C8_WriteFailureContinues ==
    \A i \in Idx :
        (Is(i, "Write.ret") /\ trace[i].val.err # Nil) =>
            /\ Cardinality(About("log.Printf", trace[i].ev)) = 1
            /\ Cardinality(About("Dispatch.call", trace[i].ev)) <= 1
            /\ i + 1 <= Len(trace) =>
                 Is(i + 1, "log.Printf") /\ trace[i + 1].ev = trace[i].ev
            /\ i + 2 <= Len(trace) =>
                 /\ Is(i + 2, "Dispatch.call")
                 /\ trace[i + 2].ev = trace[i].ev
                 /\ trace[i + 2].k = Len(SubscribersOf(trace[i].typ))
            /\ \A j \in About("Emit.ret", trace[i].ev) :
                 /\ trace[j].val = Void
                 /\ j = Len(trace) => ret = Void
                 /\ Cardinality(About("Dispatch.ret", trace[i].ev)) = 1

\* a write failed, a subscriber of the event was invoked all the same and
\* Emit returned
C8_Witness ==
    \E i \in Idx :
        /\ Is(i, "Write.ret") /\ trace[i].val.err # Nil
        /\ About("subscriber.call", trace[i].ev) # {}
        /\ About("Emit.ret", trace[i].ev) # {}

\* C9: a top-level Handle returns the unregistered-command error or exactly
\* what its own handler returned; failed log writes, subscriber errors and
\* errors of commands dispatched inside subscribers do not reach it.
C9_OnlyHandlerErrors ==
    \A i \in Idx :
        (Is(1, "Handle.call") /\ Is(i, "Handle.ret") /\ trace[i].call = trace[1].call) =>
            IF trace[i].typ \notin DOMAIN handlers
            THEN trace[i].val = [res |-> Nil,
                                 err |-> NoHandlerError([type |-> trace[i].typ])]
            ELSE /\ trace[i].val.err \in {Nil, ErrorOf(handlers[trace[i].typ])}
                 /\ \E j \in 1..i :
                      /\ Is(j, "handler.ret")
                      /\ trace[j].call = trace[1].call
                      /\ trace[j].val = trace[i].val
                 /\ i = Len(trace) => ret = trace[i].val

\* a top-level Handle returned without error although the log write failed,
\* a subscriber returned an error and a command dispatched inside a
\* subscriber failed
C9_Witness ==
    /\ status = "idle"
    /\ trace # << >>
    /\ Is(1, "Handle.call")
    /\ Is(Len(trace), "Handle.ret") /\ trace[Len(trace)].call = 1
    /\ trace[Len(trace)].val.err = Nil
    /\ \E i \in Idx : Is(i, "Write.ret") /\ trace[i].val.err # Nil
    /\ \E i \in Idx : Is(i, "subscriber.ret") /\ trace[i].val.err # Nil
    /\ \E i \in Idx : Is(i, "Handle.ret") /\ trace[i].call = 2 /\ trace[i].val.err # Nil

\* Dispatch is at work on an event whose type has no subscribers
DispatchingToNobody ==
    \/ EmitAt("dispatch") /\ DispatchList(subs, Top.ev) = << >>
    \/ Running("Dispatch", "range") /\ Top.hs = << >>

\* C10: Dispatch of an event whose type has no subscribers invokes no
\* handler, reports nothing and leaves the dispatcher's map as it was, and the
\* Emit that called it returns right after, the log write having been made.
C10_NoSubscribersNoOp ==
    /\ [](\A i \in Idx :
            (Is(i, "Dispatch.call") /\ trace[i].k = 0) =>
                /\ \E w \in 1..i : Is(w, "Write.ret") /\ trace[w].ev = trace[i].ev
                /\ i + 1 <= Len(trace) =>
                     Is(i + 1, "Dispatch.ret") /\ trace[i + 1].ev = trace[i].ev
                /\ i + 2 <= Len(trace) =>
                     /\ Is(i + 2, "Emit.ret") /\ trace[i + 2].ev = trace[i].ev
                     /\ trace[i + 2].val = Void)
    /\ [][DispatchingToNobody => (subs' = subs /\ status' # "panicked")]_vars

\* an event without subscribers went through Emit while another event type
\* had subscribers
C10_Witness ==
    /\ DOMAIN subs # {}
    /\ \E i \in Idx :
         /\ Is(i, "Dispatch.call") /\ trace[i].k = 0
         /\ trace[i].typ \notin DOMAIN subs
         /\ i + 2 <= Len(trace) /\ Is(i + 2, "Emit.ret")

\* the subscriber lists n comes from the lists m by one handler s put at the
\* end of the list of type t, every other list and every earlier entry kept
Appended(m, n, t, s) ==
    LET before == DispatchList(m, [type |-> t]) IN
    /\ DOMAIN n = DOMAIN m \cup {t}
    /\ \A x \in DOMAIN m \ {t} : n[x] = m[x]
    /\ Len(n[t]) = Len(before) + 1
    /\ \A k \in 1..Len(before) : n[t][k] = before[k]
    /\ n[t][Len(n[t])] = s

RECURSIVE Entries(_, _)
\* the number of entries of all the lists of m over the types of S
Entries(m, S) ==
    IF S = {} THEN 0
    ELSE LET t == CHOOSE x \in S : TRUE IN Len(m[t]) + Entries(m, S \ {t})

\* C11: the subscriber lists change only by a Subscribe call, which puts its
\* handler at the end of the list of its event type and leaves every earlier
\* entry in place (nothing is removed, reordered or merged, so the lists hold
\* one entry per Subscribe call), and a completed fan-out has invoked the
\* handler at each position of the list once: a handler subscribed k times is
\* invoked k times.
C11_SubscribeAppends ==
    /\ [](/\ Entries(subs, DOMAIN subs) = nSubscribes
          /\ \A i \in Idx :
                Is(i, "Dispatch.ret") =>
                    LET hs == SubscribersOf(trace[i].typ) IN
                    \A s \in Subscribers :
                        Cardinality({j \in About("subscriber.call", trace[i].ev) :
                                        trace[j].h = s})
                          = Cardinality({k \in 1..Len(hs) : hs[k] = s}))
    /\ [][IF nSubscribes' = nSubscribes + 1
          THEN \E t \in EvtTypes, s \in Subscribers : Appended(subs, subs', t, s)
          ELSE subs' = subs]_vars

\* one handler subscribed twice to a type has been invoked twice for one event
C11_Witness ==
    \E t \in DOMAIN subs :
        /\ Len(subs[t]) = 2 /\ subs[t][1] = subs[t][2]
        /\ \E i \in Idx :
             /\ Is(i, "Dispatch.ret") /\ trace[i].typ = t
             /\ Cardinality({j \in About("subscriber.call", trace[i].ev) :
                                trace[j].h = subs[t][1]}) = 2

\* the two forms, value and pointer, of the types that have both
Forms == {<< Elem[p], p >> : p \in DOMAIN Elem} \cup {<< p, Elem[p] >> : p \in DOMAIN Elem}

\* C12: a type and its pointer form are different routing keys.  A handler
\* that Handle invokes for a command of type t is one a module registered
\* under t itself, never one registered under the other form of t; and when t
\* has no handler Handle fails with the "no handler" error naming t, whether
\* or not the other form of t has one.
C12_PointerAndValueDistinct ==
    \A j \in Idx :
        Is(j, "Handle.call") =>
            LET t == trace[j].typ
                c == trace[j].call IN
            /\ \A m \in Idx :
                  (Is(m, "handler.call") /\ trace[m].call = c) =>
                      /\ t \in DOMAIN handlers
                      /\ trace[m].h = handlers[t]
                      /\ \E i \in Exposing(t) : modules[i][t] = trace[m].h
            /\ \A i \in Idx :
                  (Is(i, "Handle.ret") /\ trace[i].call = c /\ t \notin DOMAIN handlers) =>
                      /\ trace[i].val.res = Nil
                      /\ trace[i].val.err.kind = "no handler for command type"
                      /\ trace[i].val.err.by = t
                      /\ \A m \in Idx : ~Is(m, "handler.call")

\* only one form of a type has a handler, and Handle has refused a command of
\* the other form
C12_Witness ==
    \E f \in Forms :
        /\ f[1] \in DOMAIN handlers /\ f[2] \notin DOMAIN handlers
        /\ \E i \in Idx : /\ Is(i, "Handle.ret") /\ trace[i].typ = f[2]
                           /\ trace[i].val.err # Nil

\* the handler calls made on behalf of the Handle call c
HandlerCalls(c) == {m \in Idx : Is(m, "handler.call") /\ trace[m].call = c}

\* C13: the router holds one handler per command type, a handler some module
\* registered under that type, and a Handle call invokes at most one handler:
\* none when the type is unregistered, the registered one otherwise.
C13_OneHandlerPerType ==
    /\ DOMAIN handlers \subseteq CmdTypes
    /\ \A t \in DOMAIN handlers :
          Cardinality({h \in {modules[i][t] : i \in Exposing(t)} : h = handlers[t]}) = 1
    /\ \A j \in Idx :
          Is(j, "Handle.call") =>
              /\ Cardinality(HandlerCalls(trace[j].call)) <= 1
              /\ \A m \in HandlerCalls(trace[j].call) :
                    trace[m].h = handlers[trace[j].typ]

\* two modules of the list registered the same type with different handlers,
\* and a Handle call of that type has returned after one handler call
C13_Witness ==
    \E t \in DOMAIN handlers :
        /\ \E a, b \in Exposing(t) : modules[a][t] # modules[b][t]
        /\ \E i \in Idx :
             /\ Is(i, "Handle.ret") /\ trace[i].typ = t
             /\ Cardinality(HandlerCalls(trace[i].call)) = 1

\* the entries of the history made by operation op
All(op) == {i \in Idx : Is(i, op)}

\* C14: every Emit call writes its event to the log once: each write follows
\* the Emit call of the same event and carries its type, no event is written
\* twice, an Emit that returned has written, with or without subscribers and
\* whatever the write returned; once the top-level operation is over there
\* are as many writes as Emit calls, nested ones included.
C14_OneWritePerEmit ==
    /\ \A i \in All("Write.ret") :
          \E j \in 1..i : /\ Is(j, "Emit.call")
                          /\ trace[j].ev = trace[i].ev
                          /\ trace[j].typ = trace[i].typ
    /\ \A j \in All("Emit.call") :
          /\ Cardinality(About("Write.ret", trace[j].ev)) <= 1
          /\ About("Emit.ret", trace[j].ev) # {} =>
                Cardinality(About("Write.ret", trace[j].ev)) = 1
    /\ AtRest =>
          /\ Cardinality(All("Write.ret")) = Cardinality(All("Emit.call"))
          /\ Cardinality(All("Emit.call")) = nEvents

\* a top-level command is over that made two Emit calls, one of an event
\* without subscribers and one whose write failed
C14_Witness ==
    /\ status = "idle"
    /\ All("Handle.call") # {}
    /\ Cardinality(All("Emit.ret")) = 2
    /\ \E i \in All("Emit.ret") : SubscribersOf(trace[i].typ) = << >>
    /\ \E i \in All("Write.ret") : trace[i].val.err # Nil

\* C15: every module constructor that takes an event emitter panics when the
\* emitter is nil: no built module holds a nil emitter, and no Emit call of a
\* module's handler is the first place where the nil emitter fails.
C15_NilEmitterRejected ==
    /\ \A k \in 1..Len(instances) : instances[k].eventEmitter # NilEmitter
    /\ \A i \in Idx : ~Is(i, "Emit.panic")

\* C16: any two events NewBaseEvent has built carry different, non-empty
\* event ids.
C16_DistinctIDs ==
    \A i, j \in 1..Len(made) :
        /\ EventID(made[i].event) # << >>
        /\ i # j => EventID(made[i].event) # EventID(made[j].event)

\* the hexadecimal digits
HexDigits == {HexDigit[d] : d \in 1..Len(HexDigit)}

\* the id of the k-th event built is the timestamp-derived one
TimestampID(k) ==
    LET id == EventID(made[k].event) IN
    /\ Len(id) = 21
    /\ SubSeq(id, 1, 14) = FormatStamp(made[k].at)
    /\ id[15] = "-"

\* C17: NewBaseEvent never fails.  Every call returns an event with a
\* non-empty id; when the read of the randomness source failed the id is the
\* timestamp-derived string of the time of the call, otherwise the 32
\* hexadecimal digits of the bytes read; the program is never left panicked.
C17_NeverFails ==
    /\ status # "panicked"
    /\ \A k \in 1..Len(made) :
          /\ EventID(made[k].event) # << >>
          /\ made[k].read.err => TimestampID(k)
          /\ ~made[k].read.err =>
                /\ Len(EventID(made[k].event)) = 2 * IDBytes
                /\ \A c \in 1..(2 * IDBytes) : EventID(made[k].event)[c] \in HexDigits

\* an event was built on each path: one whose read failed, one whose read
\* succeeded
C17_Witness ==
    /\ \E k \in 1..Len(made) : made[k].read.err
    /\ \E k \in 1..Len(made) : ~made[k].read.err

\* C18: the event NewBaseEvent(eventType, aggregateID, version) returns
\* reports that event type, that aggregate id and that version, a non-empty
\* event id and a non-zero event time.
C18_AccessorsReturnArguments ==
    \A k \in 1..Len(made) :
        LET e == made[k].event IN
        /\ EventType(e) = made[k].eventType
        /\ AggregateID(e) = made[k].aggregateID
        /\ EventVersion(e) = made[k].version
        /\ EventID(e) # << >>
        /\ ~IsZero(EventTime(e))

\* an event was built with an event type that differs from its aggregate id,
\* and another with empty strings and version zero
C18_Witness ==
    /\ \E k \in 1..Len(made) : made[k].eventType # made[k].aggregateID
    /\ \E k \in 1..Len(made) :
         /\ made[k].eventType = "" /\ made[k].aggregateID = ""
         /\ made[k].version = 0

\* the event of frame f is as it was constructed
AsConstructed(f, fields) == fields = NewEvent(f.ev.id, f.ev.type)

C20_SameContextAndCommand ==
    \A n \in 1..Len(stack) :
        stack[n].fn = "handler" =>
            /\ n > 1 /\ stack[n - 1].fn = "Handle"
            /\ stack[n].call = stack[n - 1].call
            /\ stack[n].ctx = stack[n - 1].ctx
            /\ stack[n].cmd = stack[n - 1].cmd
            /\ n = 2 => [ctx |-> stack[n].ctx, data |-> stack[n].cmd.data] \in HandleInputs
            /\ \E j \in Idx : /\ Is(j, "Handle.call")
                               /\ trace[j].call = stack[n].call
                               /\ trace[j].typ = stack[n].cmd.type

\* the handler of main's command runs with the second input pair while the
\* handler of a command a subscriber sent runs with the subscriber's
C20_Witness ==
    /\ Len(stack) > 2
    /\ stack[2].fn = "handler" /\ stack[2].ctx = "ctxB" /\ stack[2].cmd.data = "b"
    /\ Top.fn = "handler" /\ Top.cmd.data = "fromEvent"
    /\ Top.ctx = Caller.ctx

\* C21: the context passed to a top-level Handle is the context that Emit,
\* the dispatcher and every subscriber receive for the events the handler of
\* that command emits.
C21_ContextPropagated ==
    (stack # << >> /\ stack[1].fn = "Handle") =>
        \A n \in 1..Len(stack) :
            (stack[n].fn \in {"Emit", "Dispatch", "subscriber"} /\ stack[n].call = 1) =>
                stack[n].ctx = stack[1].ctx

\* C22: the error Handle returns for a command of an unregistered type names
\* the runtime type of that very command: the type the call was made with,
\* which is no registered type.
C22_ErrorNamesCommandType ==
    \A i \in Idx :
        (Is(i, "Handle.ret") /\ trace[i].val.err.kind = "no handler for command type") =>
            /\ trace[i].val.err.by \in CmdTypes \ DOMAIN handlers
            /\ \E j \in 1..i : /\ Is(j, "Handle.call")
                                /\ trace[j].call = trace[i].call
                                /\ trace[j].typ = trace[i].val.err.by
            /\ \A j \in 1..i :
                  (Is(j, "Handle.call") /\ trace[j].call = trace[i].call) =>
                      trace[j].typ = trace[i].val.err.by

\* a router with two registered types has refused a command of a third type
C22_Witness ==
    /\ Cardinality(DOMAIN handlers) = 2
    /\ \E i \in Idx :
         /\ Is(i, "Handle.ret")
         /\ trace[i].val.err.kind = "no handler for command type"
         /\ trace[i].val.err.by \notin DOMAIN handlers

\* the reports made to a failure hook about the k-th subscriber of event e
Reports(e, k) == {j \in Idx : Is(j, "failure.report") /\ trace[j].ev = e /\ trace[j].k = k}

\* C23: every failure of a subscriber during a fan-out, a returned error or a
\* panic, is reported to a failure hook, once per failing subscriber.
C23_FailuresReported ==
    \A i \in Idx :
        ((Is(i, "subscriber.ret") /\ trace[i].val.err # Nil) \/ Is(i, "subscriber.panic")) =>
            Cardinality(Reports(trace[i].ev, trace[i].k)) = 1

\* C24: the dispatcher's subscriber map is guarded: in no reachable state is
\* the map being written by one goroutine while another goroutine reads or
\* writes it.
C24_MapGuarded ==
    \A g, o \in Goroutines :
        (g # o /\ Writing(g)) => ~(Reading(o) \/ Writing(o))

\* the deliveries of event e to the subscriber at position k
Deliveries(e, k) == {i \in About("subscriber.call", e) : trace[i].k = k}

\* C30: Emit leaves the emitter's two collaborator references as they are,
\* and with two goroutines inside Emit at once each call does its own Write
\* and then its own Dispatch: every event is written at most once and
\* dispatched at most once, by the goroutine that emitted it, the dispatch
\* after the write, each subscriber of its type getting it once; a call that
\* returned has done both, and once both goroutines are idle there are as
\* many writes and as many dispatches as Emit calls.
C30_ConcurrentEmits ==
    /\ emitter = NewEventEmitter("logger", "dispatcher")
    /\ \A j \in All("Emit.call") :
          LET e == trace[j].ev
              W == About("Write.ret", e)
              D == About("Dispatch.ret", e) IN
          /\ Cardinality(W) <= 1 /\ Cardinality(D) <= 1
          /\ \A w \in W : /\ w > j /\ trace[w].call = trace[j].call
                           /\ trace[w].typ = trace[j].typ
                           /\ trace[w].h = "logger"
          /\ \A d \in D : /\ trace[d].call = trace[j].call
                           /\ trace[d].typ = trace[j].typ
                           /\ trace[d].h = "dispatcher"
                           /\ \E w \in W : w < d
                           /\ \A k \in 1..Len(SubscribersOf(trace[j].typ)) :
                                 Cardinality(Deliveries(e, k)) = 1
          /\ \A i \in About("subscriber.call", e) :
                /\ D # {}
                /\ trace[i].call = trace[j].call
                /\ trace[i].k \in 1..Len(SubscribersOf(trace[j].typ))
          /\ About("Emit.ret", e) # {} => (Cardinality(W) = 1 /\ Cardinality(D) = 1)
    /\ \A i \in All("Write.ret") \cup All("Dispatch.ret") :
          \E j \in All("Emit.call") : trace[j].ev = trace[i].ev
    /\ (\A g \in Goroutines : threads[g] = Idle) =>
          /\ Cardinality(All("Write.ret")) = nEvents
          /\ Cardinality(All("Dispatch.ret")) = nEvents

\* both goroutines were inside Emit at once: the second call wrote before the
\* first did, both events have subscribers, and both calls have returned
C30_Witness ==
    /\ \A g \in Goroutines : threads[g] = Idle
    /\ \E a, b \in All("Write.ret") :
          /\ trace[a].ev = 1 /\ trace[b].ev = 2 /\ b < a
          /\ trace[a].call # trace[b].call
          /\ SubscribersOf(trace[a].typ) # << >>
          /\ SubscribersOf(trace[b].typ) # << >>
    /\ Cardinality(All("Emit.ret")) = 2

IsCall(i) ==
    trace[i].op \in {"Handle.call", "handler.call", "Emit.call", "Dispatch.call",
                     "subscriber.call"}

IsRet(i) ==
    trace[i].op \in {"Handle.ret", "handler.ret", "Emit.ret", "Dispatch.ret",
                     "subscriber.ret"}

\* entry b is the return of the call of entry a
Matches(a, b) ==
    /\ a < b
    /\ \/ Is(a, "Handle.call") /\ Is(b, "Handle.ret") /\ trace[a].call = trace[b].call
       \/ Is(a, "handler.call") /\ Is(b, "handler.ret") /\ trace[a].call = trace[b].call
       \/ Is(a, "Emit.call") /\ Is(b, "Emit.ret") /\ trace[a].ev = trace[b].ev
       \/ Is(a, "Dispatch.call") /\ Is(b, "Dispatch.ret") /\ trace[a].ev = trace[b].ev
       \/ /\ Is(a, "subscriber.call") /\ Is(b, "subscriber.ret")
          /\ trace[a].ev = trace[b].ev /\ trace[a].k = trace[b].k

\* the call of entry a has not returned
Open(a) == IsCall(a) /\ \A b \in (a + 1)..Len(trace) : ~Matches(a, b)

\* C25: a command chain is one synchronous depth-first call.  Every step is
\* taken inside the call that caused it while that call is still running: a
\* subscriber starts after the write of its event and inside its Dispatch, a
\* command sent by a subscriber starts inside that subscriber, a handler
\* inside its Handle, an emission inside its handler; and a call returns only
\* when everything started inside it has returned.  So with C1 -> E1 -> C2 ->
\* E2 the write and the subscribers of E2 come before handler(C2) returns,
\* that before subscriber(E1) returns, and all before Handle(C1) returns.
C25_DepthFirstChain ==
    trace # << >> =>
        LET n == Len(trace) IN
        /\ IsRet(n) =>
              \E a \in 1..(n - 1) :
                  /\ Matches(a, n)
                  /\ \A m \in (a + 1)..(n - 1) :
                        /\ IsCall(m) => \E b \in (m + 1)..(n - 1) : Matches(m, b)
                        /\ IsRet(m) => \E c \in (a + 1)..(m - 1) : Matches(c, m)
        /\ Is(n, "subscriber.call") =>
              /\ \E w \in 1..n : Is(w, "Write.ret") /\ trace[w].ev = trace[n].ev
              /\ \E a \in 1..n : /\ Is(a, "Dispatch.call") /\ Open(a)
                                  /\ trace[a].ev = trace[n].ev
        /\ (Is(n, "Handle.call") /\ trace[n].ev > 0) =>
              \E a \in 1..n : /\ Is(a, "subscriber.call") /\ Open(a)
                              /\ trace[a].ev = trace[n].ev
                              /\ trace[a].h = trace[n].h
        /\ Is(n, "handler.call") =>
              \E a \in 1..n : /\ Is(a, "Handle.call") /\ Open(a)
                              /\ trace[a].call = trace[n].call
        /\ (Is(n, "Emit.call") /\ trace[n].call > 0) =>
              \E a \in 1..n : /\ Is(a, "handler.call") /\ Open(a)
                              /\ trace[a].call = trace[n].call
        /\ (IsRet(n) /\ Matches(1, n)) => (status = "idle" /\ stack = << >>)

\* the chain C1 -> E1 -> C2 -> E2 has run to its end: the handler of a
\* command sent by a subscriber emitted an event that had a subscriber, and
\* the outer Handle has returned
C25_Witness ==
    /\ status = "idle"
    /\ trace # << >> /\ Is(1, "Handle.call") /\ Matches(1, Len(trace))
    /\ \E j, m, d \in Idx :
          /\ j < m /\ m < d
          /\ Is(j, "Handle.call") /\ trace[j].call = 2 /\ trace[j].ev = 1
          /\ Is(m, "Emit.call") /\ trace[m].call = 2 /\ trace[m].ev = 2
          /\ Is(d, "subscriber.ret") /\ trace[d].ev = 2

\* the reacting subscriber hangs on the event type t
Reacts(t) == t \in DOMAIN subs /\ \E k \in 1..Len(subs[t]) : subs[t][k] = Reacting

\* the subscription graph has a cycle: the command the reacting subscriber
\* sends makes its handler emit an event type the subscriber hangs on
Cyclic == Reacts(EmittedBy(handlers[ReactingCommand]))

\* the top-level operation leads into the cycle
EntersCycle ==
    /\ Cyclic /\ trace # << >>
    /\ \/ Is(1, "Emit.call") /\ Reacts(trace[1].typ)
       \/ /\ Is(1, "Handle.call") /\ trace[1].typ \in DOMAIN handlers
          /\ Reacts(EmittedBy(handlers[trace[1].typ]))

\* C26: nothing guards against recursion.  With a cyclic subscription graph
\* the top-level Emit or Handle never returns: every call made on the way,
\* except those of plain subscribers, is still running, the next step is
\* always possible until the exploration bound, and the call stack is as
\* deep as the number of calls made, five frames more for every command sent.
C26_CycleNeverReturns ==
    EntersCycle =>
        /\ status = "running"
        /\ \A i \in Idx : IsRet(i) => (Is(i, "subscriber.ret") /\ trace[i].h # Reacting)
        /\ \A i \in Idx : Is(i, "Dispatch.call") => trace[i].k > 0
        /\ Len(stack) >= 5 * nCalls - 4
        /\ (nCalls < MaxCalls /\ nEvents < MaxEvents) => ENABLED NextChain

\* the cycle has been followed up to the exploration bound
C26_Witness ==
    /\ EntersCycle
    /\ nCalls = MaxCalls /\ nEvents = MaxEvents
    /\ Top.fn = "subscriber" /\ Top.h = Reacting
    /\ Len(stack) >= 5 * MaxCalls

\* C27: what Handle leaves behind.  No step of a built router changes the
\* type-to-handler map or the module list; and the step by which Handle
\* returns for a registered type ends a call that invoked the resolved
\* handler exactly once and no other handler, also when that handler
\* failed, and leaves no frame, hence no reference to the command, behind.
C27_HandleFrame ==
    [][ /\ built => (handlers' = handlers /\ modules' = modules /\ built')
        /\ (status = "running" /\ status' = "idle") =>
              LET n == Len(trace') IN
              /\ trace'[n].op = "Handle.ret"
              /\ stack' = << >>
              /\ trace'[n].typ \in DOMAIN handlers =>
                    /\ Cardinality({m \in 1..n : /\ trace'[m].op = "handler.call"
                                                  /\ trace'[m].call = trace'[n].call}) = 1
                    /\ \A m \in 1..n :
                          trace'[m].op = "handler.call" =>
                              /\ trace'[m].h = handlers[trace'[n].typ]
                              /\ trace'[m].typ = trace'[n].typ
                    /\ Cardinality({m \in 1..n : trace'[m].op = "handler.ret"}) = 1
      ]_vars

\* Handle has returned the error of a registered handler that it invoked once
C27_Witness ==
    /\ status = "idle" /\ stack = << >>
    /\ \E i \in Idx :
          /\ Is(i, "Handle.ret") /\ trace[i].typ \in DOMAIN handlers
          /\ trace[i].val.err # Nil
          /\ Cardinality(HandlerCalls(trace[i].call)) = 1

\* the modules of the list expose pairwise different command types
Disjoint ==
    \A i, j \in 1..Len(modules) : i # j => DOMAIN modules[i] \cap DOMAIN modules[j] = {}

RECURSIVE Sizes(_)
\* the number of handlers the modules of the list mods expose, all told
Sizes(mods) ==
    IF mods = << >> THEN 0 ELSE Cardinality(DOMAIN Head(mods)) + Sizes(Tail(mods))

\* the list without its modules that expose nothing
NonEmpty(mods) == SelectSeq(mods, LAMBDA m : DOMAIN m # {})

\* C28: after NewApp(m1..mn) the handled types are exactly the union of the
\* types the modules expose.  NewApp() gives an initialised empty map, on
\* which every Handle fails with the "no handler" error and runs no handler;
\* a module that exposes nothing adds nothing (the map is the one the other
\* modules alone would give); modules with pairwise different types give
\* one entry per exposed type, each with the handler of its module.
C28_HandledTypesAreUnion ==
    built =>
        /\ DOMAIN handlers = UNION {DOMAIN modules[i] : i \in 1..Len(modules)}
        /\ NonEmpty(modules) = << >> =>
              /\ handlers = EmptyMap
              /\ \A i \in Idx : ~Is(i, "handler.call")
              /\ \A i \in Idx :
                    Is(i, "Handle.ret") =>
                        /\ trace[i].val.res = Nil
                        /\ trace[i].val.err = NoHandlerError([type |-> trace[i].typ])
        /\ \E orders \in OrderLists(NonEmpty(modules)) :
              handlers = RegisterAll(EmptyMap, NonEmpty(modules), orders)
        /\ Disjoint =>
              /\ Cardinality(DOMAIN handlers) = Sizes(modules)
              /\ \A i \in 1..Len(modules) : \A t \in DOMAIN modules[i] :
                    handlers[t] = modules[i][t]

\* NewApp was given modules with pairwise different types that together
\* expose every command type
C28_Witness ==
    /\ built /\ Disjoint
    /\ Len(modules) = MaxModules
    /\ Cardinality(DOMAIN handlers) = Cardinality(CmdTypes)

\* the subscription entries under type t, in the order they were made
Under(t) == IF t \in DOMAIN subs THEN subs[t] ELSE << >>

\* C29: Dispatch of an event invokes exactly the handlers subscribed under
\* the event's runtime type, once per subscription entry: every subscriber
\* call made for the event is the call of an entry under that type, and by
\* the time Dispatch returns each entry was called once and nothing else
\* was, whatever is subscribed under other types, the other form (value or
\* pointer) of the same struct included.
C29_OnlyOwnType ==
    /\ \A c \in All("subscriber.call") :
          LET hs == Under(trace[c].typ) IN
          /\ trace[c].k \in 1..Len(hs)
          /\ trace[c].h = hs[trace[c].k]
          /\ \E d \in 1..c : /\ Is(d, "Dispatch.call") /\ trace[d].ev = trace[c].ev
                               /\ trace[d].typ = trace[c].typ
          /\ \A b \in All("subscriber.call") :
                (trace[b].ev = trace[c].ev /\ trace[b].k = trace[c].k) => b = c
    /\ \A d \in All("Dispatch.ret") :
          /\ Cardinality(About("subscriber.call", trace[d].ev)) = Len(Under(trace[d].typ))
          /\ \A k \in 1..Len(Under(trace[d].typ)) :
                \E c \in 1..d : /\ Is(c, "subscriber.call") /\ trace[c].ev = trace[d].ev
                                 /\ trace[c].k = k

\* an event was dispatched while handlers were subscribed under both forms
\* of its struct, and only the one under its own form was invoked
C29_Witness ==
    \E p \in DOMAIN EvtElem :
        /\ Under(p) # << >> /\ Under(EvtElem[p]) # << >>
        /\ Under(p)[1] # Under(EvtElem[p])[1]
        /\ \E d \in All("Dispatch.ret") :
              /\ trace[d].typ = EvtElem[p]
              /\ Cardinality(About("subscriber.ret", trace[d].ev)) = 1

\* the number of entries of the reacting subscriber under type t
Reactions(t) == Cardinality({k \in 1..Len(Under(t)) : Under(t)[k] = Reacting})

\* What the subscription graph says an operation causes.  w weighs what is
\* counted: w.cmd for every Handle call, w.evt for every handler invocation
\* (each emits one event), w.sub for every subscriber invocation; n bounds
\* the number of commands on a path, which an acyclic graph never exceeds.
RECURSIVE OfCmd(_, _, _)
RECURSIVE OfEvt(_, _, _)
OfCmd(w, t, n) ==
    w.cmd + (IF t \in DOMAIN handlers /\ n > 0
             THEN w.evt + OfEvt(w, EmittedBy(handlers[t]), n)
             ELSE 0)

OfEvt(w, e, n) ==
    w.sub * Len(Under(e)) + Reactions(e) * OfCmd(w, ReactingCommand, n - 1)

\* what the top-level operation of the history causes according to the graph
Caused(w) ==
    LET n == Cardinality(CmdTypes) + 1 IN
    IF Is(1, "Handle.call") THEN OfCmd(w, trace[1].typ, n)
    ELSE w.evt + OfEvt(w, trace[1].typ, n)

HandleCallsCaused == Caused([cmd |-> 1, evt |-> 0, sub |-> 0])
EmitsCaused == Caused([cmd |-> 0, evt |-> 1, sub |-> 0])
SubscriberCallsCaused == Caused([cmd |-> 0, evt |-> 0, sub |-> 1])

\* the graph has no cycle and what the operation causes lies within the
\* explored numbers of calls and events
AcyclicRun ==
    /\ ~Cyclic /\ trace # << >>
    /\ HandleCallsCaused <= MaxCalls
    /\ EmitsCaused <= MaxEvents

\* C31: with an acyclic graph of "handler emits event" and "subscriber sends
\* command" edges, and handlers, subscribers and log writes that return, a
\* top-level call eventually returns; the handler and subscriber
\* invocations it causes are never more than the graph gives, and at its
\* return they are exactly as many.
C31_AcyclicTerminates ==
    /\ [](AcyclicRun =>
            /\ Cardinality(All("handler.call")) <= EmitsCaused
            /\ Cardinality(All("subscriber.call")) <= SubscriberCallsCaused
            /\ Cardinality(All("Handle.call")) <= HandleCallsCaused
            /\ status = "idle" =>
                  /\ Matches(1, Len(trace))
                  /\ Cardinality(All("Emit.call")) = EmitsCaused
                  /\ Cardinality(All("subscriber.ret")) = SubscriberCallsCaused
                  /\ Cardinality(All("Handle.ret")) = HandleCallsCaused)
    /\ ((status = "running" /\ AcyclicRun) ~> (status = "idle" /\ AcyclicRun))

\* a top-level Handle has returned after a chain command -> event ->
\* subscriber -> command -> event -> subscriber in an acyclic graph
C31_Witness ==
    /\ AcyclicRun /\ status = "idle"
    /\ Is(1, "Handle.call")
    /\ HandleCallsCaused = 2
    /\ Cardinality(All("handler.ret")) = 2
    /\ Cardinality(All("subscriber.ret")) >= 2

\* C32: a fan-out goes over the subscriber list as it was when Dispatch
\* started.  A handler subscribed to the event's type by a subscriber during
\* the fan-out is not invoked for the event in flight: that Dispatch calls
\* only the entries the list had at its start.  Every later Dispatch of that
\* type finds the new handler at its place in the list and has invoked it,
\* after all earlier entries, by the time it returns.
C32_FanOutOverSnapshot ==
    \A j \in All("Subscribe.ret") :
        LET e == trace[j].ev
            t == trace[j].typ
            k == trace[j].k IN
        /\ Len(Under(t)) >= k /\ Under(t)[k] = trace[j].h
        /\ \A c \in About("subscriber.call", e) : trace[c].k < k
        /\ \A d \in About("Dispatch.call", e) : trace[d].k < k
        /\ \A r \in About("Dispatch.ret", e) : \A d \in About("Dispatch.call", e) :
              Cardinality(About("subscriber.call", e)) = trace[d].k
        /\ \A d \in All("Dispatch.call") :
              (d > j /\ trace[d].typ = t) =>
                  /\ trace[d].k >= k
                  /\ \A r \in About("Dispatch.ret", trace[d].ev) :
                        \E c \in d..r :
                            /\ Is(c, "subscriber.call") /\ trace[c].ev = trace[d].ev
                            /\ trace[c].k = k /\ trace[c].h = trace[j].h
                            /\ \A n \in 1..(k - 1) :
                                  \E b \in d..c : /\ Is(b, "subscriber.ret")
                                                   /\ trace[b].ev = trace[d].ev
                                                   /\ trace[b].k = n

\* a subscriber subscribed a second handler during the fan-out of one event,
\* that fan-out ended without it, and the Dispatch of the next event of the
\* type has invoked it after the first
C32_Witness ==
    \E j \in All("Subscribe.ret") :
        /\ trace[j].k = 2
        /\ About("Dispatch.ret", trace[j].ev) # {}
        /\ \E r \in All("Dispatch.ret") :
              /\ r > j /\ trace[r].typ = trace[j].typ /\ trace[r].ev # trace[j].ev
              /\ trace[r].k = 2

\* C33: the router NewApp builds depends on the order of the module list and
\* on each module's (type, handler) pairs only.  Whatever the order in which
\* the entries of each module's map were iterated, the map that was built is
\* the map every other iteration order builds from the same list, so every
\* command type is routed the same way (same handler, or refused alike), and
\* the handler a Handle call has invoked is the one any build would invoke.
C33_IterationOrderIrrelevant ==
    built =>
        \A orders \in OrderLists(modules) :
            LET other == RegisterAll(EmptyMap, modules, orders) IN
            /\ handlers = other
            /\ \A t \in CmdTypes : Lookup(handlers, [type |-> t]) = Lookup(other, [type |-> t])
            /\ \A i \in All("handler.call") :
                  /\ Lookup(other, [type |-> trace[i].typ]).ok
                  /\ Lookup(other, [type |-> trace[i].typ]).h = trace[i].h

\* the router was built from a list whose maps can be iterated in several
\* orders, two modules of it collide on a type, and Handle has invoked a
\* handler
C33_Witness ==
    /\ built
    /\ Cardinality(OrderLists(modules)) > 1
    /\ ~Disjoint
    /\ All("handler.call") # {}

\* C34: Handle with a nil command, on a router NewApp built from modules
\* that register handlers under the types of their commands, returns a nil
\* result and the "no handler" error (which names <nil>) in its next step:
\* the nil type is no key of the map, no handler is invoked and nothing
\* panics.
C34_NilCommandRefused ==
    /\ NilType \notin DOMAIN handlers
    /\ status # "panicked"
    /\ \A j \in All("Handle.call") :
          trace[j].typ = NilType =>
              /\ All("handler.call") = {}
              /\ Len(trace) = j => Running("Handle", "lookup") /\ TypeOf(Top.cmd) = NilType
              /\ Len(trace) > j =>
                    /\ Len(trace) = j + 1 /\ Is(j + 1, "Handle.ret")
                    /\ trace[j + 1].call = trace[j].call
                    /\ trace[j + 1].val.res = Nil
                    /\ trace[j + 1].val.err = [kind |-> "no handler for command type",
                                               by |-> NilType]
                    /\ ret = trace[j + 1].val
                    /\ status = "idle" /\ stack = << >>

\* a router that has handlers has refused a nil command
C34_Witness ==
    /\ built /\ DOMAIN handlers # {}
    /\ status = "idle"
    /\ \E i \in All("Handle.ret") : trace[i].typ = NilType /\ trace[i].val.err # Nil

============================================================================
